---------------------------- MODULE Spec2Model ----------------------------
(***************************************************************************)
(* A model of the RSSI positioning server.                                 *)
(*                                                                         *)
(*   triangulation.py  the engine: User (per-entity state, Kalman filter   *)
(*                     per beacon, distance estimate, trilateration,       *)
(*                     change gate) and Triangulation (entity store,       *)
(*                     update_rssi, force_calculate_position, parsing)     *)
(*   bencons.py        one worker thread per beacon; each notification     *)
(*                     runs BeaconDelegate.handleNotification              *)
(*   basic.py          the earlier variant with global dictionaries and    *)
(*                     one process-wide data_lock                          *)
(*   app.py            the fingerprint web variant (current_rssi,          *)
(*                     data_lock, socketio.emit)                           *)
(*                                                                         *)
(* Numbers.  The program computes in floating point; the model computes in *)
(* fixed point.  Lengths are in centimetres, a filtered RSSI is in         *)
(* thousandths of a dB, a covariance or a gain is in ten-thousandths.      *)
(* Every division is the integer division of the scaled operands, so a     *)
(* result differs from the float by less than one unit of its scale.       *)
(***************************************************************************)
EXTENDS Integers, Sequences, FiniteSets, TLC

(***************************************************************************)
(* Fixed-point resolutions.                                                *)
(***************************************************************************)
RssiScale == 1000      \* filtered_rssi: 1/1000 dB
KScale == 10000        \* kf.P, kf.R, kf.Q, gain K: 1/10000
CmPerMetre == 100      \* distances and coordinates: cm

(***************************************************************************)
(* Bounds of the model.                                                    *)
(***************************************************************************)
MaxSteps == 4          \* engine calls in one behaviour of Spec
MaxGateSteps == 5      \* engine calls in one behaviour of SpecGate
MaxNotifications == 3  \* notifications in one behaviour of SpecWorkers
MaxParseSteps == 3     \* notifications in one behaviour of SpecParse
MaxQuerySteps == 4     \* engine calls in one behaviour of SpecQuery
MaxSolveCalls == 2     \* solver calls in one behaviour of SpecSolve
MaxEstimateCalls == 2  \* estimator calls in one behaviour of SpecEstimate
MaxFilterSteps == 4    \* samples in one behaviour of SpecFilter
MaxRecoverSteps == 4   \* notifications in one behaviour of SpecRecover
MaxLoadCalls == 2      \* configuration loads in one behaviour of SpecLoad
MaxStatusSteps == 5    \* engine calls in one behaviour of SpecStatus
MaxHistorySteps == 12  \* samples in one behaviour of SpecHistory
MaxExportSteps == 4  \* calls in one behaviour of SpecExport
MaxConnectSteps == 3   \* attempts and waits in one behaviour of SpecConnect
MaxCommitNotifications == 2  \* notifications in one behaviour of SpecCommit
MaxEquivCalls == 2     \* solver calls in one behaviour of SpecEquiv
MaxRangeSteps == 4     \* samples in one behaviour of SpecRange
MaxUnlistedNotifications == 3  \* notifications in one behaviour of SpecUnlisted
MaxFingerprintSteps == 5  \* steps in one behaviour of SpecFingerprint
MaxConfigLen == 3      \* beacon records in one configuration
MaxFourNotifications == 4   \* notifications in one behaviour of SpecBasicFour
MaxBasicNotifications == 3  \* notifications in one behaviour of SpecBasic
MaxAppNotifications == 3    \* notifications in one behaviour of SpecApp

(***************************************************************************)
(* Program constants.                                                      *)
(***************************************************************************)
TX_POWER == -55              \* _rssi_to_distance(tx_power = -55)
MIN_DISTANCE == 10           \* 0.1 m
MAX_DISTANCE == 10000        \* 100.0 m
INVALID_DISTANCE == -100     \* -1.0 m, the marker of an invalid reading
DISTANCE_THRESHOLD == 50     \* 0.5 m: distance-level gate
POSITION_THRESHOLD == 10     \* 0.1 m: position-level gate
RSSI_HISTORY_MAX == 5
POSITION_HISTORY_MAX == 10
KF_P0 == 20000               \* kf.P *= 2
KF_R == 40000                \* kf.R *= 4
KF_Q == 100                  \* kf.Q *= 0.01
MIN_BEACONS == 3

None == <<>>

Abs(n) == IF n < 0 THEN -n ELSE n
Min(a, b) == IF a < b THEN a ELSE b
Max(a, b) == IF a > b THEN a ELSE b

(***************************************************************************)
(* Maps (Python dicts) are functions whose domain is the set of keys.      *)
(***************************************************************************)
EmptyMap == [k \in {} |-> None]
Put(f, key, v) == [k \in (DOMAIN f) \cup {key} |-> IF k = key THEN v ELSE f[k]]

(***************************************************************************)
(* The beacon registry, Triangulation.beacons: mac -> coordinate (cm).     *)
(* B1, B2, B3 are the triangle (0,0), (4,0), (0,3); B4 at (2,0) lies on    *)
(* the line through B1 and B2.  BX is a beacon the configuration does not  *)
(* hold.                                                                   *)
(***************************************************************************)
beacons ==
    [m \in {"B1", "B2", "B3", "B4"} |->
        CASE m = "B1" -> [x |-> 0, y |-> 0]
          [] m = "B2" -> [x |-> 4 * CmPerMetre, y |-> 0]
          [] m = "B3" -> [x |-> 0, y |-> 3 * CmPerMetre]
          [] m = "B4" -> [x |-> 2 * CmPerMetre, y |-> 0]]

Macs == DOMAIN beacons
UnknownMac == "BX"

(***************************************************************************)
(* math.pow(10, (tx_power - rssi) / 30) in cm, for tx_power - rssi in      *)
(* thousandths of a dB: PathLossTable[j + 1] is 100 * 10^(j / 30) rounded, *)
(* j = 0 .. 60, and values between two entries are interpolated linearly.  *)
(***************************************************************************)
PathLossTable ==
    << 100, 108, 117, 126, 136, 147, 158, 171, 185, 200,
       215, 233, 251, 271, 293, 316, 341, 369, 398, 430,
       464, 501, 541, 584, 631, 681, 736, 794, 858, 926,
       1000, 1080, 1166, 1259, 1359, 1468, 1585, 1711, 1848, 1995,
       2154, 2326, 2512, 2712, 2929, 3162, 3415, 3687, 3981, 4299,
       4642, 5012, 5412, 5843, 6310, 6813, 7356, 7943, 8577, 9261,
       10000 >>

PathLoss(d) ==
    LET q == d \div RssiScale
        r == d % RssiScale
    IN  IF q >= Len(PathLossTable) - 1
        THEN PathLossTable[Len(PathLossTable)]   \* 60 dB and beyond: at least 100 m
        ELSE PathLossTable[q + 1]
             + ((PathLossTable[q + 2] - PathLossTable[q + 1]) * r) \div RssiScale

(***************************************************************************)
(* User._rssi_to_distance(rssi), rssi the filtered value in 1/1000 dB.     *)
(***************************************************************************)
\* Mutant of rssi_to_distance: a positive RSSI is used by its absolute
\* value.
rssi_to_distance_abs(rssi) ==
    IF rssi = 0 THEN INVALID_DISTANCE
    ELSE IF -Abs(rssi) >= TX_POWER * RssiScale THEN MIN_DISTANCE
    ELSE Max(MIN_DISTANCE, Min(PathLoss(TX_POWER * RssiScale + Abs(rssi)), MAX_DISTANCE))

rssi_to_distance(rssi) ==
    IF rssi = 0 THEN INVALID_DISTANCE
    ELSE IF rssi > 0 THEN INVALID_DISTANCE
    ELSE IF rssi >= TX_POWER * RssiScale THEN MIN_DISTANCE
    ELSE Max(MIN_DISTANCE, Min(PathLoss(TX_POWER * RssiScale - rssi), MAX_DISTANCE))

(***************************************************************************)
(* The 1-D Kalman filter of filterpy as update_beacon_rssi sets it up:     *)
(* F = H = 1, P = 2, R = 4, Q = 0.01, x = the first sample.                *)
(***************************************************************************)
NewKalman(rssi) == [x |-> rssi * RssiScale, P |-> KF_P0]

\* kf.predict(): x = F x, P = F P F' + Q
KalmanPredict(kf) == [x |-> kf.x, P |-> kf.P + KF_Q]

\* Mutant of KalmanUpdate: the innovation is added in full on top of the
\* gain's share.
KalmanUpdate_overshoot(kf, rssi) ==
    LET y == rssi * RssiScale - kf.x
        S == kf.P + KF_R
        K == (kf.P * KScale) \div S
        IKH == KScale - K
    IN  [x |-> kf.x + y + (K * y) \div KScale,
         P |-> (((IKH * kf.P) \div KScale) * IKH) \div KScale
               + (((K * KF_R) \div KScale) * K) \div KScale]

\* kf.update(z): y = z - H x, S = H P H' + R, K = P H' / S, x = x + K y,
\* P = (I - K H) P (I - K H)' + K R K'
KalmanUpdate(kf, rssi) ==
    LET y == rssi * RssiScale - kf.x
        S == kf.P + KF_R
        K == (kf.P * KScale) \div S
        IKH == KScale - K
    IN  [x |-> kf.x + (K * y) \div KScale,
         P |-> (((IKH * kf.P) \div KScale) * IKH) \div KScale
               + (((K * KF_R) \div KScale) * K) \div KScale]


(***************************************************************************)
(* class User.  beacon_data is a dict; beacon_order is the order in which  *)
(* its keys were inserted (the order dict.items() yields them in).         *)
(***************************************************************************)
NewUser(user_id) ==
    [user_id |-> user_id,
     beacon_data |-> EmptyMap,
     beacon_order |-> <<>>,
     last_position |-> None,
     position_history |-> <<>>,
     kalman_filters |-> EmptyMap]

\* Mutant of filter_rssi: a new beacon's filter starts from the state of a
\* filter the user already has.
filter_rssi_shared(user, beacon_mac, rssi) ==
    LET kf == IF beacon_mac \notin DOMAIN user.kalman_filters
              THEN IF DOMAIN user.kalman_filters = {}
                   THEN NewKalman(rssi)
                   ELSE user.kalman_filters[CHOOSE m \in DOMAIN user.kalman_filters : TRUE]
              ELSE user.kalman_filters[beacon_mac]
    IN  [user EXCEPT !.kalman_filters =
            Put(@, beacon_mac, KalmanUpdate(KalmanPredict(kf), rssi))]

\* update_beacon_rssi, first half: get or create the filter of beacon_mac,
\* predict, update.
filter_rssi(user, beacon_mac, rssi) ==
    LET kf == IF beacon_mac \notin DOMAIN user.kalman_filters
              THEN NewKalman(rssi)
              ELSE user.kalman_filters[beacon_mac]
    IN  [user EXCEPT !.kalman_filters =
            Put(@, beacon_mac, KalmanUpdate(KalmanPredict(kf), rssi))]

\* Mutant of PushHistory: nothing is ever discarded.
PushHistory_unbounded(history, v, limit) == Append(history, v)

\* rssi_history.append(rssi); if len(rssi_history) > 5: rssi_history.pop(0)
PushHistory(history, v, limit) ==
    LET h == Append(history, v)
    IN  IF Len(h) > limit THEN Tail(h) ELSE h

\* update_beacon_rssi, second half: the raw history, the distance of the
\* filtered value, the distance-level gate and the store into beacon_data.
record_distance(user, beacon_mac, rssi, beacon_position) ==
    LET filtered_rssi == user.kalman_filters[beacon_mac].x
        known == beacon_mac \in DOMAIN user.beacon_data
        rssi_history == PushHistory(IF known
                                    THEN user.beacon_data[beacon_mac].rssi_history
                                    ELSE <<>>,
                                    rssi, RSSI_HISTORY_MAX)
        distance == rssi_to_distance(filtered_rssi)
        is_new_beacon == ~known
        significant_change ==
            /\ ~is_new_beacon
            /\ Abs(distance - user.beacon_data[beacon_mac].distance)
                   > DISTANCE_THRESHOLD
        entry == [rssi |-> rssi,
                  filtered_rssi |-> filtered_rssi,
                  rssi_history |-> rssi_history,
                  distance |-> distance,
                  position |-> beacon_position]
    IN  [user |-> [user EXCEPT
                     !.beacon_data = Put(@, beacon_mac, entry),
                     !.beacon_order = IF known THEN @ ELSE Append(@, beacon_mac)],
         ret |-> is_new_beacon \/ significant_change]

update_beacon_rssi(user, beacon_mac, rssi, beacon_position) ==
    record_distance(filter_rssi(user, beacon_mac, rssi),
                    beacon_mac, rssi, beacon_position)

\* sorted(self.beacon_data.items(), key = distance): a stable sort of the
\* keys in insertion order.
RECURSIVE InsertByDistance(_, _, _)
InsertByDistance(sorted, mac, data) ==
    IF sorted = <<>> THEN <<mac>>
    ELSE IF data[mac].distance < data[Head(sorted)].distance
         THEN <<mac>> \o sorted
         ELSE <<Head(sorted)>> \o InsertByDistance(Tail(sorted), mac, data)

RECURSIVE SortByDistance(_, _)
SortByDistance(order, data) ==
    IF order = <<>> THEN <<>>
    ELSE InsertByDistance(SortByDistance(SubSeq(order, 1, Len(order) - 1), data),
                          order[Len(order)], data)

get_closest_beacons(user, count) ==
    LET sorted_beacons == SortByDistance(user.beacon_order, user.beacon_data)
    IN  SubSeq(sorted_beacons, 1, Min(count, Len(sorted_beacons)))

can_calculate_position(user) == Cardinality(DOMAIN user.beacon_data) >= MIN_BEACONS

\* The linear system of the three circles, solved by Cramer's rule.
\* Mutant of Trilaterate: with a zero denominator it falls back to the
\* first beacon instead of failing.
Trilaterate_fallback(p1, p2, p3, r1, r2, r3) ==
    LET A == 2 * (p2.x - p1.x)
        B == 2 * (p2.y - p1.y)
        C == r1 * r1 - r2 * r2 - p1.x * p1.x + p2.x * p2.x - p1.y * p1.y + p2.y * p2.y
        D == 2 * (p3.x - p2.x)
        E == 2 * (p3.y - p2.y)
        F == r2 * r2 - r3 * r3 - p2.x * p2.x + p3.x * p3.x - p2.y * p2.y + p3.y * p3.y
        denominator == A * E - B * D
    IN  IF Abs(denominator) < 1
        THEN <<p1.x, p1.y>>
        ELSE << (C * E - F * B) \div denominator, (A * F - D * C) \div denominator >>

Trilaterate(p1, p2, p3, r1, r2, r3) ==
    LET A == 2 * (p2.x - p1.x)
        B == 2 * (p2.y - p1.y)
        C == r1 * r1 - r2 * r2 - p1.x * p1.x + p2.x * p2.x - p1.y * p1.y + p2.y * p2.y
        D == 2 * (p3.x - p2.x)
        E == 2 * (p3.y - p2.y)
        F == r2 * r2 - r3 * r3 - p2.x * p2.x + p3.x * p3.x - p2.y * p2.y + p3.y * p3.y
        denominator == A * E - B * D
    IN  IF Abs(denominator) < 1
        THEN None
        ELSE << (C * E - F * B) \div denominator, (A * F - D * C) \div denominator >>

\* Mutant of calculate_position: the distances are not checked.
calculate_position_unchecked(user) ==
    IF ~can_calculate_position(user) THEN None
    ELSE LET closest_beacons == get_closest_beacons(user, 3)
             d1 == user.beacon_data[closest_beacons[1]]
             d2 == user.beacon_data[closest_beacons[2]]
             d3 == user.beacon_data[closest_beacons[3]]
         IN  Trilaterate(d1.position, d2.position, d3.position,
                         d1.distance, d2.distance, d3.distance)

calculate_position(user) ==
    IF ~can_calculate_position(user) THEN None
    ELSE LET closest_beacons == get_closest_beacons(user, 3)
             d1 == user.beacon_data[closest_beacons[1]]
             d2 == user.beacon_data[closest_beacons[2]]
             d3 == user.beacon_data[closest_beacons[3]]
         IN  IF d1.distance <= 0 \/ d2.distance <= 0 \/ d3.distance <= 0
             THEN None
             ELSE Trilaterate(d1.position, d2.position, d3.position,
                              d1.distance, d2.distance, d3.distance)

\* The dictionary update_position and force_calculate_position return.
PositionInfo(user, position) ==
    LET closest_beacons == get_closest_beacons(user, 3)
    IN  [user_id |-> user.user_id,
         x |-> position[1],
         y |-> position[2],
         beacons_used |-> Cardinality(DOMAIN user.beacon_data),
         closest_beacons |->
            [i \in 1..Len(closest_beacons) |->
                [mac |-> closest_beacons[i],
                 distance |-> user.beacon_data[closest_beacons[i]].distance,
                 rssi |-> user.beacon_data[closest_beacons[i]].rssi]]]

\* math.sqrt(dx^2 + dy^2) > 0.1, compared in squares.
MovedMoreThan(p, q, threshold) ==
    (p[1] - q[1]) * (p[1] - q[1]) + (p[2] - q[2]) * (p[2] - q[2])
        > threshold * threshold

\* Mutant of position_changed: a gate that forgets the threshold.
position_changed_always(user, new_position) == TRUE

\* Mutant of position_changed: a gate that reports the positions within the
\* threshold instead of those beyond it.
position_changed_inverted(user, new_position) ==
    IF user.last_position # None
    THEN ~MovedMoreThan(new_position, user.last_position, POSITION_THRESHOLD)
    ELSE TRUE

position_changed(user, new_position) ==
    IF user.last_position # None
    THEN MovedMoreThan(new_position, user.last_position, POSITION_THRESHOLD)
    ELSE TRUE

\* update_position: ret is <<>> for None, <<info>> for a position event.
update_position(user) ==
    LET new_position == calculate_position(user)
    IN  IF new_position = None THEN [user |-> user, ret |-> None]
        ELSE IF position_changed(user, new_position)
        THEN [user |-> [user EXCEPT
                          !.last_position = new_position,
                          !.position_history =
                              PushHistory(@, new_position, POSITION_HISTORY_MAX)],
              ret |-> <<PositionInfo(user, new_position)>>]
        ELSE [user |-> user, ret |-> None]

\* Mutant of get_status: last_position is solved from the current
\* distances instead of read from the user.
get_status_current(user) ==
    [user_id |-> user.user_id,
     total_beacons |-> Cardinality(DOMAIN user.beacon_data),
     can_calculate |-> can_calculate_position(user),
     last_position |-> calculate_position(user),
     beacon_count |-> Cardinality(DOMAIN user.beacon_data)]

get_status(user) ==
    [user_id |-> user.user_id,
     total_beacons |-> Cardinality(DOMAIN user.beacon_data),
     can_calculate |-> can_calculate_position(user),
     last_position |-> user.last_position,
     beacon_count |-> Cardinality(DOMAIN user.beacon_data)]

(***************************************************************************)
(* Payloads.  A payload is the sequence of its characters.                 *)
(***************************************************************************)
Digits == <<"0", "1", "2", "3", "4", "5", "6", "7", "8", "9">>

IsDigit(c) == \E i \in 1..Len(Digits) : Digits[i] = c
DigitValue(c) == (CHOOSE i \in 1..Len(Digits) : Digits[i] = c) - 1

RECURSIVE DecimalValue(_)
DecimalValue(s) ==
    IF s = <<>> THEN 0
    ELSE 10 * DecimalValue(SubSeq(s, 1, Len(s) - 1)) + DigitValue(s[Len(s)])

\* str.strip(): the text without its leading and trailing whitespace.
Whitespace == {" ", "\n"}

RECURSIVE Strip(_)
Strip(text) ==
    IF text = <<>> THEN text
    ELSE IF Head(text) \in Whitespace THEN Strip(Tail(text))
    ELSE IF text[Len(text)] \in Whitespace THEN Strip(SubSeq(text, 1, Len(text) - 1))
    ELSE text

\* int(text): surrounding whitespace is ignored; then an optional sign and
\* at least one decimal digit; anything else raises ValueError (ok = FALSE).
ParseInt(text) ==
    LET stripped == Strip(text)
        signed == stripped # <<>> /\ Head(stripped) \in {"-", "+"}
        digits == IF signed THEN Tail(stripped) ELSE stripped
    IN  IF digits # <<>> /\ \A i \in 1..Len(digits) : IsDigit(digits[i])
        THEN [ok |-> TRUE,
              value |-> IF signed /\ Head(stripped) = "-"
                        THEN -DecimalValue(digits) ELSE DecimalValue(digits)]
        ELSE [ok |-> FALSE, value |-> 0]

\* data.split(':')
RECURSIVE Split(_)
Split(data) ==
    IF \A i \in 1..Len(data) : data[i] # ":" THEN <<data>>
    ELSE LET i == CHOOSE j \in 1..Len(data) :
                      data[j] = ":" /\ \A k \in 1..(j - 1) : data[k] # ":"
         IN  <<SubSeq(data, 1, i - 1)>> \o Split(SubSeq(data, i + 1, Len(data)))

\* text.split(sep)
RECURSIVE SplitOn(_, _)
SplitOn(text, sep) ==
    IF \A i \in 1..Len(text) : text[i] # sep THEN <<text>>
    ELSE LET i == CHOOSE j \in 1..Len(text) :
                      text[j] = sep /\ \A k \in 1..(j - 1) : text[k] # sep
         IN  <<SubSeq(text, 1, i - 1)>> \o SplitOn(SubSeq(text, i + 1, Len(text)), sep)

\* float(text) for decimal notation, the value in cm: surrounding whitespace
\* is ignored; an optional sign, digits, at most one point and at least one
\* digit; anything else raises ValueError (ok = FALSE).  Decimals beyond the
\* second are dropped.
ParseFloat(text) ==
    LET stripped == Strip(text)
        signed == stripped # <<>> /\ Head(stripped) \in {"-", "+"}
        body == IF signed THEN Tail(stripped) ELSE stripped
        parts == SplitOn(body, ".")
        whole == parts[1]
        decimals == IF Len(parts) = 2 THEN parts[2] ELSE <<>>
        hundredths == SubSeq(decimals \o <<"0", "0">>, 1, 2)
        magnitude == DecimalValue(whole) * CmPerMetre + DecimalValue(hundredths)
    IN  IF /\ Len(parts) <= 2
           /\ whole \o decimals # <<>>
           /\ \A i \in 1..Len(whole) : IsDigit(whole[i])
           /\ \A i \in 1..Len(decimals) : IsDigit(decimals[i])
        THEN [ok |-> TRUE,
              value |-> IF signed /\ Head(stripped) = "-" THEN -magnitude ELSE magnitude]
        ELSE [ok |-> FALSE, value |-> 0]

\* Triangulation.__init__, the body of the loop over config['beacons']:
\* coords = beacon['toado'].split(','), float(coords[0]), float(coords[1]).
\* ok = FALSE stands for the ValueError of float() or the IndexError of
\* coords[1]; segments after the second are ignored.
parse_toado(toado) ==
    LET coords == SplitOn(toado, ",")
    IN  IF Len(coords) < 2 THEN [ok |-> FALSE, x |-> 0, y |-> 0]
        ELSE LET x == ParseFloat(coords[1])
                 y == ParseFloat(coords[2])
             IN  IF x.ok /\ y.ok THEN [ok |-> TRUE, x |-> x.value, y |-> y.value]
                 ELSE [ok |-> FALSE, x |-> 0, y |-> 0]

\* basic.py: x_str, y_str = b["toado"].split(","), float(x_str),
\* float(y_str), inside try/except: any other number of segments than two
\* fails as well.
basic_parse_toado(toado) ==
    LET coords == SplitOn(toado, ",")
    IN  IF Len(coords) # 2 THEN [ok |-> FALSE, x |-> 0, y |-> 0]
        ELSE parse_toado(toado)

\* Triangulation.__init__: the registry of the configuration; the first
\* record that fails raises out of the constructor (ok = FALSE, no
\* registry).
RECURSIVE load_beacons(_)
load_beacons(config) ==
    IF config = <<>> THEN [ok |-> TRUE, beacons |-> EmptyMap]
    ELSE LET before == load_beacons(SubSeq(config, 1, Len(config) - 1))
             beacon == config[Len(config)]
             coords == parse_toado(beacon.toado)
         IN  IF ~before.ok \/ ~coords.ok THEN [ok |-> FALSE, beacons |-> EmptyMap]
             ELSE [ok |-> TRUE,
                   beacons |-> Put(before.beacons, beacon.mac,
                                   [x |-> coords.x, y |-> coords.y])]

\* basic.py beacon_coords: a record that fails is reported and skipped.
RECURSIVE load_beacon_coords(_)
load_beacon_coords(config) ==
    IF config = <<>> THEN [ok |-> TRUE, beacons |-> EmptyMap, warnings |-> 0]
    ELSE LET before == load_beacon_coords(SubSeq(config, 1, Len(config) - 1))
             b == config[Len(config)]
             coords == basic_parse_toado(b.toado)
         IN  IF coords.ok
             THEN [before EXCEPT !.beacons = Put(@, b.mac, [x |-> coords.x, y |-> coords.y])]
             ELSE [before EXCEPT !.warnings = @ + 1]

\* ":" not in data
HasNoColon(data) == \A i \in 1..Len(data) : data[i] # ":"

\* Mutant of parse_beacon_data: a payload without a colon is taken as an
\* entity id with RSSI 0 instead of raising.
parse_beacon_data_lenient(data) ==
    LET parts == Split(data)
    IN  IF Len(parts) < 2 THEN [ok |-> TRUE, user_id |-> parts[1], rssi |-> 0]
        ELSE LET n == ParseInt(parts[2])
             IN  IF n.ok THEN [ok |-> TRUE, user_id |-> parts[1], rssi |-> n.value]
                 ELSE [ok |-> FALSE, user_id |-> <<>>, rssi |-> 0]

\* Triangulation.parse_beacon_data: ok = FALSE stands for the ValueError it
\* raises (from int(), or from the IndexError of parts[1]).
parse_beacon_data(data) ==
    LET parts == Split(data)
    IN  IF Len(parts) < 2 THEN [ok |-> FALSE, user_id |-> <<>>, rssi |-> 0]
        ELSE LET n == ParseInt(parts[2])
             IN  IF n.ok THEN [ok |-> TRUE, user_id |-> parts[1], rssi |-> n.value]
                 ELSE [ok |-> FALSE, user_id |-> <<>>, rssi |-> 0]

(***************************************************************************)
(* basic.py: the distance of a reading, its filter and the solve.          *)
(* A distance is in cm; a covariance of the distance filter is in          *)
(* hundredths; an accuracy is in tenths of a percent.                      *)
(***************************************************************************)
PScale == 100                   \* kf.P, kf.R, kf.Q of basic.py: 1/100
BASIC_P0 == 1000 * PScale       \* kf.P *= 1000.
BASIC_R == PScale \div 10       \* kf.R = 0.1
BASIC_Q == [q00 |-> 1, q01 |-> 1, q11 |-> 10]   \* [[0.01, 0.01], [0.01, 0.1]]
GainScale == 1000               \* the ratio P01 / S in the update of P11
AccuracyFull == 1000            \* 100 %

\* a / b rounded to the nearest integer (b # 0)
RoundDiv(a, b) ==
    IF b > 0 THEN (2 * a + b) \div (2 * b) ELSE (-2 * a - b) \div (-2 * b)

\* 10 ** (n / (10 * ENV_FACTOR)) metres in cm, ENV_FACTOR = 2.8, for
\* n = EnvPathLossMin .. 56
EnvPathLossMin == -60

EnvPathLossTable ==
    <<
       1, 1, 1, 1,
       1, 1, 1, 1, 1, 2, 2, 2, 2, 2, 2, 2,
       3, 3, 3, 3, 4, 4, 4, 5, 5, 6, 6, 7,
       7, 8, 8, 9, 10, 11, 12, 13, 14, 15, 16, 18,
       19, 21, 23, 25, 27, 29, 32, 34, 37, 40, 44, 48,
       52, 56, 61, 66, 72, 78, 85, 92, 100, 109, 118, 128,
       139, 151, 164, 178, 193, 210, 228, 247, 268, 291, 316, 343,
       373, 405, 439, 477, 518, 562, 611, 663, 720, 781, 848, 921,
       1000, 1086, 1179, 1280, 1389, 1509, 1638, 1778, 1931, 2096, 2276, 2471,
       2683, 2913, 3162, 3433, 3728, 4047, 4394, 4771, 5179, 5623, 6105, 6629,
       7197, 7814, 8483, 9211, 10000 >>

\* estimate_distance: None for rssi == 0, else the path-loss distance of
\* TX_POWER - rssi (no clamp).
estimate_distance(rssi) ==
    IF rssi = 0 THEN None
    ELSE <<EnvPathLossTable[(TX_POWER - rssi) - EnvPathLossMin + 1]>>

\* create_kalman_filter: x = [distance, velocity] = 0, P = 1000 I
create_kalman_filter ==
    [x0 |-> 0, x1 |-> 0, P00 |-> BASIC_P0, P01 |-> 0, P11 |-> BASIC_P0]

\* kf.predict(): x = F x, P = F P F' + Q with F = [[1, 1], [0, 1]]
Kalman2Predict(kf) ==
    [x0 |-> kf.x0 + kf.x1,
     x1 |-> kf.x1,
     P00 |-> kf.P00 + 2 * kf.P01 + kf.P11 + BASIC_Q.q00,
     P01 |-> kf.P01 + kf.P11 + BASIC_Q.q01,
     P11 |-> kf.P11 + BASIC_Q.q11]

\* kf.update(z) with H = [1, 0]: S = P00 + R, K = [P00, P01] / S,
\* x = x + K (z - x0), P = (I - K H) P (I - K H)' + K R K' = (I - K H) P
Kalman2Update(kf, z) ==
    LET S == kf.P00 + BASIC_R
        y == z - kf.x0
    IN  [x0 |-> kf.x0 + RoundDiv(y * kf.P00, S),
         x1 |-> kf.x1 + RoundDiv(y * kf.P01, S),
         P00 |-> RoundDiv(kf.P00 * BASIC_R, S),
         P01 |-> RoundDiv(kf.P01 * BASIC_R, S),
         P11 |-> kf.P11 - RoundDiv(kf.P01 * RoundDiv(kf.P01 * GainScale, S),
                                   GainScale)]

\* np.sqrt, to the nearest integer
RECURSIVE SqrtBetween(_, _, _)
SqrtBetween(n, lo, hi) ==
    IF lo >= hi THEN lo
    ELSE LET mid == (lo + hi + 1) \div 2
         IN  IF mid * mid <= n THEN SqrtBetween(n, mid, hi)
             ELSE SqrtBetween(n, lo, mid - 1)

Sqrt(n) ==
    LET r == SqrtBetween(n, 0, 46340)
    IN  IF n - r * r > r THEN r + 1 ELSE r

\* Mutant of calculate_position_accuracy: the score is not kept at or above
\* 0.
calculate_position_accuracy_unclamped(positions, distances, calculated_pos) ==
    LET error(i) ==
            Abs(Sqrt((calculated_pos[1] - positions[i].x) * (calculated_pos[1] - positions[i].x)
                     + (calculated_pos[2] - positions[i].y) * (calculated_pos[2] - positions[i].y))
                - distances[i])
        avg_error == RoundDiv(error(1) + error(2) + error(3), 3)
    IN  AccuracyFull - avg_error

\* basic.py calculate_position_accuracy: 100 - 10 * (mean error in metres),
\* not below 0
calculate_position_accuracy(positions, distances, calculated_pos) ==
    LET error(i) ==
            Abs(Sqrt((calculated_pos[1] - positions[i].x) * (calculated_pos[1] - positions[i].x)
                     + (calculated_pos[2] - positions[i].y) * (calculated_pos[2] - positions[i].y))
                - distances[i])
        avg_error == RoundDiv(error(1) + error(2) + error(3), 3)
    IN  Max(0, AccuracyFull - avg_error)

\* Mutant of trilaterate: the two terms of the numerator of y are added.
trilaterate_sign(positions, distances) ==
    IF Len(positions) < 3 THEN [position |-> None, accuracy |-> 0]
    ELSE LET p1 == positions[1]
             p2 == positions[2]
             p3 == positions[3]
             r1 == distances[1]
             r2 == distances[2]
             r3 == distances[3]
             A == 2 * (p2.x - p1.x)
             B == 2 * (p2.y - p1.y)
             C == r1 * r1 - r2 * r2 - p1.x * p1.x + p2.x * p2.x - p1.y * p1.y + p2.y * p2.y
             D == 2 * (p3.x - p2.x)
             E == 2 * (p3.y - p2.y)
             F == r2 * r2 - r3 * r3 - p2.x * p2.x + p3.x * p3.x - p2.y * p2.y + p3.y * p3.y
             denominator == A * E - B * D
         IN  IF Abs(denominator) < 1 THEN [position |-> None, accuracy |-> 0]
             ELSE LET x == RoundDiv(C * E - F * B, denominator)
                      y == RoundDiv(A * F + C * D, denominator)
                  IN  [position |-> <<x, y>>,
                       accuracy |-> calculate_position_accuracy(
                                        SubSeq(positions, 1, 3),
                                        SubSeq(distances, 1, 3), <<x, y>>)]

\* basic.py trilaterate: the first three beacons of the lists
trilaterate(positions, distances) ==
    IF Len(positions) < 3 THEN [position |-> None, accuracy |-> 0]
    ELSE LET p1 == positions[1]
             p2 == positions[2]
             p3 == positions[3]
             r1 == distances[1]
             r2 == distances[2]
             r3 == distances[3]
             A == 2 * (p2.x - p1.x)
             B == 2 * (p2.y - p1.y)
             C == r1 * r1 - r2 * r2 - p1.x * p1.x + p2.x * p2.x - p1.y * p1.y + p2.y * p2.y
             D == 2 * (p3.x - p2.x)
             E == 2 * (p3.y - p2.y)
             F == r2 * r2 - r3 * r3 - p2.x * p2.x + p3.x * p3.x - p2.y * p2.y + p3.y * p3.y
             denominator == A * E - B * D
         IN  IF Abs(denominator) < 1 THEN [position |-> None, accuracy |-> 0]
             ELSE LET x == RoundDiv(C * E - F * B, denominator)
                      y == RoundDiv(A * F - C * D, denominator)
                  IN  [position |-> <<x, y>>,
                       accuracy |-> calculate_position_accuracy(
                                        SubSeq(positions, 1, 3),
                                        SubSeq(distances, 1, 3), <<x, y>>)]

\* basic.py beacon_coords: the coordinates of the beacons of bencons.json
beacon_coords == beacons

(***************************************************************************)
(* The state of the engine.                                                *)
(*   heap    the User objects ever constructed, in order of construction   *)
(*   users   Triangulation.users: user_id -> the index in heap of the User *)
(*   last    the last call made on the engine and what it returned         *)
(*   nsteps  the number of calls made so far                               *)
(*   limit   the number of calls the behaviour makes at most               *)
(***************************************************************************)
VARIABLES heap, users, last, nsteps, limit

(***************************************************************************)
(* The worker threads of bencons.py, one per beacon (BeaconConnection.     *)
(* start_thread), each running handleNotification for its own beacon.      *)
(*   pc        where each worker stands in its handler                     *)
(*   loc       the handler's local variables                               *)
(*   recorded  per worker and entity, the distance the worker stored last  *)
(***************************************************************************)
VARIABLES pc, loc, recorded

workerVars == <<pc, loc, recorded>>

(***************************************************************************)
(* The module-level state of basic.py and of app.py, whose workers (again  *)
(* one per beacon, standing at pc with locals loc) share it under          *)
(* data_lock.                                                              *)
(*   data_lock       threading.Lock(): None, or <<t>> when worker t holds  *)
(*                   it                                                    *)
(*   kalman_filters  basic.py: mac -> the filter of the beacon's distance  *)
(*   user_data       basic.py: user_id -> the beacons' filtered distances, *)
(*                   in the order the beacons were first recorded          *)
(*   user_positions  basic.py: user_id -> the position computed last       *)
(*   current_rssi    app.py: mac -> the RSSI received last                 *)
(*   stdout          the number of lines printed, and who printed the last *)
(*   emitted         the number of socketio events emitted, and the last   *)
(***************************************************************************)
VARIABLES data_lock, kalman_filters, user_data, user_positions, current_rssi,
          stdout, emitted

serverVars == <<data_lock, kalman_filters, user_data, user_positions,
                current_rssi, stdout, emitted>>

vars == <<heap, users, last, nsteps, limit, pc, loc, recorded,
          data_lock, kalman_filters, user_data, user_positions,
          current_rssi, stdout, emitted>>

Entity(user_id) == heap[users[user_id]]

Call(op, mac, data, parsed, user_id, rssi, ret, current) ==
    [op |-> op, mac |-> mac, data |-> data, parsed |-> parsed,
     user_id |-> user_id, rssi |-> rssi, ret |-> ret, current |-> current]

\* Mutant of update_rssi: the store keeps one entity only, a new entity
\* replaces those known before.
update_rssi_evicting(us, hp, user_id, mac, rssi) ==
    LET hp1 == IF user_id \notin DOMAIN us THEN <<NewUser(user_id)>> ELSE hp
        us1 == IF user_id \notin DOMAIN us THEN Put(EmptyMap, user_id, 1) ELSE us
    IN  IF mac \notin DOMAIN beacons
        THEN [users |-> us1, heap |-> hp1, ret |-> None]
        ELSE LET user == hp1[us1[user_id]]
                 upd == update_beacon_rssi(user, mac, rssi, beacons[mac])
             IN  IF upd.ret /\ can_calculate_position(upd.user)
                 THEN LET pos == update_position(upd.user)
                      IN  [users |-> us1,
                           heap |-> [hp1 EXCEPT ![us1[user_id]] = pos.user],
                           ret |-> pos.ret]
                 ELSE [users |-> us1,
                       heap |-> [hp1 EXCEPT ![us1[user_id]] = upd.user],
                       ret |-> None]

\* Mutant of update_rssi: once an entity holds an invalid distance its
\* samples are no longer processed.
update_rssi_halting(us, hp, user_id, mac, rssi) ==
    IF /\ user_id \in DOMAIN us
       /\ \E m \in DOMAIN hp[us[user_id]].beacon_data :
              hp[us[user_id]].beacon_data[m].distance = INVALID_DISTANCE
    THEN [users |-> us, heap |-> hp, ret |-> None]
    ELSE
    LET hp1 == IF user_id \notin DOMAIN us THEN Append(hp, NewUser(user_id)) ELSE hp
        us1 == IF user_id \notin DOMAIN us THEN Put(us, user_id, Len(hp1)) ELSE us
    IN  IF mac \notin DOMAIN beacons
        THEN [users |-> us1, heap |-> hp1, ret |-> None]
        ELSE LET user == hp1[us1[user_id]]
                 upd == update_beacon_rssi(user, mac, rssi, beacons[mac])
             IN  IF upd.ret /\ can_calculate_position(upd.user)
                 THEN LET pos == update_position(upd.user)
                      IN  [users |-> us1,
                           heap |-> [hp1 EXCEPT ![us1[user_id]] = pos.user],
                           ret |-> pos.ret]
                 ELSE [users |-> us1,
                       heap |-> [hp1 EXCEPT ![us1[user_id]] = upd.user],
                       ret |-> None]

\* Triangulation.update_rssi on the store (us, hp): the store after the call
\* and the value returned (<<>> for None, <<info>> for a position event).
update_rssi(us, hp, user_id, mac, rssi) ==
    LET hp1 == IF user_id \notin DOMAIN us THEN Append(hp, NewUser(user_id)) ELSE hp
        us1 == IF user_id \notin DOMAIN us THEN Put(us, user_id, Len(hp1)) ELSE us
    IN  IF mac \notin DOMAIN beacons
        THEN [users |-> us1, heap |-> hp1, ret |-> None]
        ELSE LET user == hp1[us1[user_id]]
                 upd == update_beacon_rssi(user, mac, rssi, beacons[mac])
             IN  IF upd.ret /\ can_calculate_position(upd.user)
                 THEN LET pos == update_position(upd.user)
                      IN  [users |-> us1,
                           heap |-> [hp1 EXCEPT ![us1[user_id]] = pos.user],
                           ret |-> pos.ret]
                 ELSE [users |-> us1,
                       heap |-> [hp1 EXCEPT ![us1[user_id]] = upd.user],
                       ret |-> None]

\* Triangulation.force_calculate_position
force_calculate_position(us, hp, user_id) ==
    IF user_id \notin DOMAIN us THEN None
    ELSE LET user == hp[us[user_id]]
         IN  IF ~can_calculate_position(user) THEN None
             ELSE LET position == calculate_position(user)
                  IN  IF position = None THEN None
                      ELSE <<PositionInfo(user, position)>>

\* Mutant of ForceCall: the query stores what it computed as the position
\* reported last.
ForceCall_commit(us, hp, user_id) ==
    LET ret == force_calculate_position(us, hp, user_id)
    IN  [users |-> us,
         heap |-> IF ret = None THEN hp
                  ELSE [hp EXCEPT ![us[user_id]].last_position =
                                      <<ret[1].x, ret[1].y>>],
         ret |-> ret]

\* A call of force_calculate_position on the store (us, hp): the store
\* after the call, which the method only reads, and the value returned.
ForceCall(us, hp, user_id) ==
    [users |-> us, heap |-> hp, ret |-> force_calculate_position(us, hp, user_id)]

\* Triangulation.get_user_status
get_user_status(us, hp, user_id) ==
    IF user_id \notin DOMAIN us THEN None ELSE <<get_status(hp[us[user_id]])>>

(***************************************************************************)
(* The engine's operations as actions.  Each is one call run to            *)
(* completion; nsteps counts the calls.                                    *)
(***************************************************************************)
Workers == {"B1", "B2", "B3"}

IdleLoc ==
    [data |-> <<>>, user_id |-> <<>>, rssi |-> 0, user |-> 0,
     has_significant_change |-> FALSE, new_position |-> None, ret |-> None,
     filtered |-> 0]

InitWorkers ==
    /\ pc = [t \in Macs |-> "idle"]
    /\ loc = [t \in Macs |-> IdleLoc]
    /\ recorded = [t \in Macs |-> EmptyMap]

\* basic.py: one filter per beacon, made when the beacon's delegate is;
\* app.py: current_rssi = {}.
InitServers ==
    /\ data_lock = None
    /\ kalman_filters = [mac \in Macs |-> create_kalman_filter]
    /\ user_data = EmptyMap
    /\ user_positions = EmptyMap
    /\ current_rssi = EmptyMap
    /\ stdout = [lines |-> 0, by |-> "", line |-> ""]
    /\ emitted = [events |-> 0, by |-> "", rssi |-> 0]

InitEngine ==
    /\ InitWorkers
    /\ InitServers
    /\ heap = <<>>
    /\ users = EmptyMap
    /\ last = Call("init", "", <<>>, FALSE, <<>>, 0, None, None)
    /\ nsteps = 0

\* app.py: "if age <= 30", seconds
MaxReadingAge == 30

\* time.time(): the clock advances SecondsPerStep seconds with every
\* counted step.
SecondsPerStep == 15

time_time == nsteps * SecondsPerStep

\* One more call is made: the bound of the behaviour is not exhausted.
Step ==
    /\ nsteps < limit
    /\ nsteps' = nsteps + 1
    /\ UNCHANGED <<limit, workerVars, serverVars>>

\* bencons.py, BeaconDelegate.handleNotification: parse, update_rssi, then
\* the force query whose result is displayed.
HandleNotification(mac, data) ==
    /\ Step
    /\ LET p == parse_beacon_data(data)
       IN  IF ~p.ok
           THEN /\ UNCHANGED <<heap, users>>
                /\ last' = Call("notify", mac, data, FALSE, <<>>, 0, None, None)
           ELSE LET r == update_rssi(users, heap, p.user_id, mac, p.rssi)
                    f == ForceCall(r.users, r.heap, p.user_id)
                IN  /\ heap' = f.heap
                    /\ users' = f.users
                    /\ last' = Call("notify", mac, data, TRUE, p.user_id, p.rssi, r.ret,
                                    f.ret)

\* A direct call of Triangulation.update_rssi.
UpdateRssi(user_id, mac, rssi) ==
    /\ Step
    /\ LET r == update_rssi(users, heap, user_id, mac, rssi)
       IN  /\ heap' = r.heap
           /\ users' = r.users
           /\ last' = Call("update", mac, <<>>, TRUE, user_id, rssi, r.ret, None)

\* bencons.py, print_positions_periodically: one user's force query.
ForceCalculatePosition(user_id) ==
    /\ Step
    /\ LET f == ForceCall(users, heap, user_id)
       IN  /\ heap' = f.heap
           /\ users' = f.users
           /\ last' = Call("force", "", <<>>, TRUE, user_id, 0, f.ret, None)

GetUserStatus(user_id) ==
    /\ Step
    /\ last' = Call("status", "", <<>>, TRUE, user_id, 0,
                    get_user_status(users, heap, user_id), None)
    /\ UNCHANGED <<heap, users>>

(***************************************************************************)
(* Spec: the engine under every kind of input.  Entity u is reported by    *)
(* B1, B2 and B3 with valid, zero and positive RSSI; entity v by B1; the   *)
(* malformed payloads arrive at B1; BX is not in the registry.             *)
(***************************************************************************)
UserIds == { <<"u">>, <<"v">> }

ReadingPayloads ==
    { <<"u", ":", "-", "7", "0">>,
      <<"u", ":", "-", "7", "6">>,
      <<"u", ":", "0">>,
      <<"u", ":", "5">> }

OtherPayloads ==
    { <<"v", ":", "-", "7", "0">>,
      <<"g", "a", "r", "b", "a", "g", "e">>,
      <<"u", ":", "-", "7", "0", ":", "x">>,
      <<"-", "7", "0">>,
      <<"u", ":", "x">> }

Payloads == ReadingPayloads \cup OtherPayloads

Notifications ==
    ({"B1", "B2", "B3"} \X ReadingPayloads) \cup ({"B1"} \X OtherPayloads)

Init == InitEngine /\ limit = MaxSteps

Next ==
    \/ \E n \in Notifications : HandleNotification(n[1], n[2])
    \/ \E user_id \in UserIds : UpdateRssi(user_id, UnknownMac, -70)
    \/ \E user_id \in UserIds : ForceCalculatePosition(user_id)
    \/ \E user_id \in UserIds : GetUserStatus(user_id)

Spec == Init /\ [][Next]_vars

(***************************************************************************)
(* SpecGate: one entity reported by all four beacons with valid readings,  *)
(* one call deeper.                                                        *)
(***************************************************************************)
GatePayloads ==
    { <<"u", ":", "-", "7", "0">>,
      <<"u", ":", "-", "7", "6">> }

InitGate == InitEngine /\ limit = MaxGateSteps

NextGate == \E mac \in Macs, data \in GatePayloads : HandleNotification(mac, data)

SpecGate == InitGate /\ [][NextGate]_vars

(***************************************************************************)
(* SpecWorkers: the workers of B1, B2 and B3 run handleNotification        *)
(* concurrently on the one Triangulation object, which takes no lock.  A   *)
(* step is one access to the shared store: threads may be switched         *)
(* between any two of them.                                                *)
(***************************************************************************)
WorkerPayloads ==
    { <<"u", ":", "-", "7", "0">>,
      <<"u", ":", "-", "7", "6">>,
      <<"g", "a", "r", "b", "a", "g", "e">> }

Goto(t, label) == pc' = [pc EXCEPT ![t] = label]

\* handleNotification is entered: parse_beacon_data; a ValueError is caught
\* and logged, and the handler returns.
Receive(t, data) ==
    /\ pc[t] = "idle"
    /\ nsteps < limit
    /\ nsteps' = nsteps + 1
    /\ LET p == parse_beacon_data(data)
       IN  IF ~p.ok
           THEN /\ last' = Call("notify", t, data, FALSE, <<>>, 0, None, None)
                /\ UNCHANGED <<pc, loc>>
           ELSE /\ loc' = [loc EXCEPT ![t] = [IdleLoc EXCEPT !.data = data,
                                                            !.user_id = p.user_id,
                                                            !.rssi = p.rssi]]
                /\ Goto(t, "check")
                /\ UNCHANGED last
    /\ UNCHANGED <<heap, users, limit, recorded, serverVars>>

\* update_rssi: if user_id not in self.users
CheckUser(t) ==
    /\ pc[t] = "check"
    /\ Goto(t, IF loc[t].user_id \notin DOMAIN users THEN "create" ELSE "lookup")
    /\ UNCHANGED <<heap, users, last, nsteps, limit, loc, recorded, serverVars>>

\* update_rssi: self.users[user_id] = User(user_id)
CreateUser(t) ==
    /\ pc[t] = "create"
    /\ heap' = Append(heap, NewUser(loc[t].user_id))
    /\ users' = Put(users, loc[t].user_id, Len(heap) + 1)
    /\ Goto(t, "lookup")
    /\ UNCHANGED <<last, nsteps, limit, loc, recorded, serverVars>>

\* update_rssi: user = self.users[user_id] (the worker's beacon is in the
\* registry)
LookupUser(t) ==
    /\ pc[t] = "lookup"
    /\ loc' = [loc EXCEPT ![t].user = users[loc[t].user_id]]
    /\ Goto(t, "filter")
    /\ UNCHANGED <<heap, users, last, nsteps, limit, recorded, serverVars>>

\* update_beacon_rssi: the filter of the worker's beacon
FilterSample(t) ==
    /\ pc[t] = "filter"
    /\ heap' = [heap EXCEPT ![loc[t].user] = filter_rssi(@, t, loc[t].rssi)]
    /\ Goto(t, "record")
    /\ UNCHANGED <<users, last, nsteps, limit, loc, recorded, serverVars>>

\* update_beacon_rssi: the entry of the worker's beacon in beacon_data
RecordDistance(t) ==
    /\ pc[t] = "record"
    /\ LET r == record_distance(heap[loc[t].user], t, loc[t].rssi, beacons[t])
       IN  /\ heap' = [heap EXCEPT ![loc[t].user] = r.user]
           /\ loc' = [loc EXCEPT ![t].has_significant_change = r.ret]
           /\ recorded' = [recorded EXCEPT ![t] =
                             Put(@, loc[t].user_id, r.user.beacon_data[t].distance)]
    /\ Goto(t, "gate")
    /\ UNCHANGED <<users, last, nsteps, limit, serverVars>>

\* update_rssi: if has_significant_change and user.can_calculate_position()
Gate(t) ==
    /\ pc[t] = "gate"
    /\ Goto(t, IF loc[t].has_significant_change
                  /\ can_calculate_position(heap[loc[t].user])
               THEN "solve" ELSE "display")
    /\ UNCHANGED <<heap, users, last, nsteps, limit, loc, recorded, serverVars>>

\* update_position: new_position = self.calculate_position()
Solve(t) ==
    /\ pc[t] = "solve"
    /\ LET new_position == calculate_position(heap[loc[t].user])
       IN  /\ loc' = [loc EXCEPT ![t].new_position = new_position]
           /\ Goto(t, IF new_position = None THEN "display" ELSE "commit")
    /\ UNCHANGED <<heap, users, last, nsteps, limit, recorded, serverVars>>

\* update_position: the position-level gate and self.last_position = (x, y)
Commit(t) ==
    /\ pc[t] = "commit"
    /\ LET user == heap[loc[t].user]
           new_position == loc[t].new_position
       IN  IF position_changed(user, new_position)
           THEN /\ heap' = [heap EXCEPT ![loc[t].user].last_position = new_position]
                /\ Goto(t, "append")
           ELSE /\ UNCHANGED heap
                /\ Goto(t, "display")
    /\ UNCHANGED <<users, last, nsteps, limit, loc, recorded, serverVars>>

\* update_position: self.position_history.append((x, y)), the oldest entry
\* is dropped from a history of more than ten, and the event is built
AppendHistory(t) ==
    /\ pc[t] = "append"
    /\ LET user == [heap[loc[t].user] EXCEPT
                      !.position_history =
                          PushHistory(@, loc[t].new_position, POSITION_HISTORY_MAX)]
       IN  /\ heap' = [heap EXCEPT ![loc[t].user] = user]
           /\ loc' = [loc EXCEPT ![t].ret = <<PositionInfo(user, loc[t].new_position)>>]
    /\ Goto(t, "display")
    /\ UNCHANGED <<users, last, nsteps, limit, recorded, serverVars>>

\* handleNotification: force_calculate_position for the display; the
\* handler returns.
Display(t) ==
    /\ pc[t] = "display"
    /\ last' = Call("notify", t, loc[t].data, TRUE, loc[t].user_id, loc[t].rssi,
                    loc[t].ret,
                    force_calculate_position(users, heap, loc[t].user_id))
    /\ loc' = [loc EXCEPT ![t] = IdleLoc]
    /\ Goto(t, "idle")
    /\ UNCHANGED <<heap, users, nsteps, limit, recorded, serverVars>>

InitWorkersSpec == InitEngine /\ limit = MaxNotifications

NextWorkers ==
    \/ \E t \in Workers, data \in WorkerPayloads : Receive(t, data)
    \/ \E t \in Workers : CheckUser(t)
    \/ \E t \in Workers : CreateUser(t)
    \/ \E t \in Workers : LookupUser(t)
    \/ \E t \in Workers : FilterSample(t)
    \/ \E t \in Workers : RecordDistance(t)
    \/ \E t \in Workers : Gate(t)
    \/ \E t \in Workers : Solve(t)
    \/ \E t \in Workers : Commit(t)
    \/ \E t \in Workers : AppendHistory(t)
    \/ \E t \in Workers : Display(t)

SpecWorkers == InitWorkersSpec /\ [][NextWorkers]_vars

(***************************************************************************)
(* SpecQuery: one entity with valid and invalid readings, and the force    *)
(* query.  B1, B2 and B3 report -70, B1 also -76; B3 and B4 report 0,      *)
(* which a fresh filter turns into the invalid distance -1.0.              *)
(***************************************************************************)
QueryNotifications ==
    { <<"B1", <<"u", ":", "-", "7", "0">> >>,
      <<"B1", <<"u", ":", "-", "7", "6">> >>,
      <<"B2", <<"u", ":", "-", "7", "0">> >>,
      <<"B3", <<"u", ":", "-", "7", "0">> >>,
      <<"B3", <<"u", ":", "0">> >>,
      <<"B4", <<"u", ":", "0">> >> }

InitQuery == InitEngine /\ limit = MaxQuerySteps

NextQuery ==
    \/ \E n \in QueryNotifications : HandleNotification(n[1], n[2])
    \/ ForceCalculatePosition(<<"u">>)

SpecQuery == InitQuery /\ [][NextQuery]_vars

(***************************************************************************)
(* SpecSolve: the solvers as pure functions.  An entity holds three        *)
(* beacons whose positions are drawn from a grid (the registry is          *)
(* configuration: add_beacon and bencons.json accept any coordinates) and  *)
(* whose distances are either free positive values or the Euclidean        *)
(* distances, at the resolution of 1 cm, from a true point.  The calls are *)
(* User.update_position, force_calculate_position and basic.py's           *)
(* trilaterate on the entity's beacons in insertion order.                 *)
(***************************************************************************)
Point(x, y) == [x |-> x, y |-> y]

SolveGrid ==
    {Point(x, y) : x \in {0, 3 * CmPerMetre, 4 * CmPerMetre},
                   y \in {0, 3 * CmPerMetre}}

\* (0,0), (1,0), (2,0) and (0,0), (4,0), (0,3)
CollinearExample == <<Point(0, 0), Point(CmPerMetre, 0), Point(2 * CmPerMetre, 0)>>
RoundTripExample == <<beacons["B1"], beacons["B2"], beacons["B3"]>>

BeaconTriples ==
    (SolveGrid \X SolveGrid \X SolveGrid) \cup {CollinearExample, RoundTripExample}

TruePoints == SolveGrid \cup {Point(CmPerMetre, CmPerMetre)}

\* math.sqrt((px - bx)**2 + (py - by)**2)
SquaredDistance(p, q) == (p.x - q.x) * (p.x - q.x) + (p.y - q.y) * (p.y - q.y)

Distance(p, q) == Sqrt(SquaredDistance(p, q))

ExactDistances(P, triple) == [i \in 1..3 |-> Distance(P, triple[i])]

FreeDistances == {CmPerMetre, (5 * CmPerMetre) \div 2, 10 * CmPerMetre}

DistanceChoices(triple) ==
    {ExactDistances(P, triple) : P \in TruePoints}
        \cup (FreeDistances \X FreeDistances \X FreeDistances)

SolveMacs == <<"B1", "B2", "B3">>

\* The entity after one sample of each of the three beacons.
SolveUser(triple, distances) ==
    [NewUser(<<"u">>) EXCEPT
        !.beacon_order = SolveMacs,
        !.beacon_data =
            [mac \in {"B1", "B2", "B3"} |->
                LET i == CHOOSE k \in 1..3 : SolveMacs[k] = mac
                IN  [rssi |-> -70,
                     filtered_rssi |-> -70 * RssiScale,
                     rssi_history |-> <<-70>>,
                     distance |-> distances[i],
                     position |-> triple[i]]],
        !.kalman_filters = [mac \in {"B1", "B2", "B3"} |-> NewKalman(-70)]]

InitSolve ==
    /\ InitWorkers
    /\ InitServers
    /\ \E triple \in BeaconTriples : \E distances \in DistanceChoices(triple) :
           heap = <<SolveUser(triple, distances)>>
    /\ users = (<<"u">> :> 1)
    /\ last = Call("init", "", <<>>, FALSE, <<>>, 0, None, None)
    /\ nsteps = 0
    /\ limit = MaxSolveCalls

\* User.update_position
UpdatePosition(user_id) ==
    /\ Step
    /\ LET r == update_position(Entity(user_id))
       IN  /\ heap' = [heap EXCEPT ![users[user_id]] = r.user]
           /\ last' = Call("update_position", "", <<>>, TRUE, user_id, 0, r.ret, None)
    /\ UNCHANGED users

\* basic.py trilaterate(coords, dists) on the entity's beacons
TrilaterateCall(user_id) ==
    /\ Step
    /\ LET user == Entity(user_id)
           coords == [i \in 1..Len(user.beacon_order) |->
                        user.beacon_data[user.beacon_order[i]].position]
           dists == [i \in 1..Len(user.beacon_order) |->
                        user.beacon_data[user.beacon_order[i]].distance]
       IN  last' = Call("trilaterate", "", <<>>, TRUE, user_id, 0,
                        trilaterate(coords, dists), None)
    /\ UNCHANGED <<heap, users>>

NextSolve ==
    \/ UpdatePosition(<<"u">>)
    \/ ForceCalculatePosition(<<"u">>)
    \/ TrilaterateCall(<<"u">>)

SpecSolve == InitSolve /\ [][NextSolve]_vars

(***************************************************************************)
(* SpecEquiv: the three solvers on the same inputs.  The entity of         *)
(* SpecSolve is queried through force_calculate_position, and basic.py's   *)
(* and test_trilateration.py's trilaterate are called on the coordinates   *)
(* and distances of its three closest beacons, in the order in which       *)
(* User.calculate_position takes them.                                     *)
(***************************************************************************)

\* Mutant of test_trilaterate: the factor 2 of A is dropped.
test_trilaterate_halved(positions, distances) ==
    IF Len(positions) < 3 THEN [position |-> None, accuracy |-> 0]
    ELSE LET p1 == positions[1]
             p2 == positions[2]
             p3 == positions[3]
             r1 == distances[1]
             r2 == distances[2]
             r3 == distances[3]
             A == p2.x - p1.x
             B == 2 * (p2.y - p1.y)
             C == r1 * r1 - r2 * r2 - p1.x * p1.x + p2.x * p2.x - p1.y * p1.y + p2.y * p2.y
             D == 2 * (p3.x - p2.x)
             E == 2 * (p3.y - p2.y)
             F == r2 * r2 - r3 * r3 - p2.x * p2.x + p3.x * p3.x - p2.y * p2.y + p3.y * p3.y
             denominator == A * E - B * D
         IN  IF Abs(denominator) < 1 THEN [position |-> None, accuracy |-> 0]
             ELSE LET x == RoundDiv(C * E - F * B, denominator)
                      y == RoundDiv(A * F - C * D, denominator)
                  IN  [position |-> <<x, y>>,
                       accuracy |-> calculate_position_accuracy(
                                        SubSeq(positions, 1, 3),
                                        SubSeq(distances, 1, 3), <<x, y>>)]

\* test_trilateration.py trilaterate
test_trilaterate(positions, distances) ==
    IF Len(positions) < 3 THEN [position |-> None, accuracy |-> 0]
    ELSE LET p1 == positions[1]
             p2 == positions[2]
             p3 == positions[3]
             r1 == distances[1]
             r2 == distances[2]
             r3 == distances[3]
             A == 2 * (p2.x - p1.x)
             B == 2 * (p2.y - p1.y)
             C == r1 * r1 - r2 * r2 - p1.x * p1.x + p2.x * p2.x - p1.y * p1.y + p2.y * p2.y
             D == 2 * (p3.x - p2.x)
             E == 2 * (p3.y - p2.y)
             F == r2 * r2 - r3 * r3 - p2.x * p2.x + p3.x * p3.x - p2.y * p2.y + p3.y * p3.y
             denominator == A * E - B * D
         IN  IF Abs(denominator) < 1 THEN [position |-> None, accuracy |-> 0]
             ELSE LET x == RoundDiv(C * E - F * B, denominator)
                      y == RoundDiv(A * F - C * D, denominator)
                  IN  [position |-> <<x, y>>,
                       accuracy |-> calculate_position_accuracy(
                                        SubSeq(positions, 1, 3),
                                        SubSeq(distances, 1, 3), <<x, y>>)]

\* The coordinates and the distances of the three closest beacons of a
\* user, as User.calculate_position reads them.
ClosestCoords(user) ==
    LET closest_beacons == get_closest_beacons(user, 3)
    IN  [i \in 1..Len(closest_beacons) |-> user.beacon_data[closest_beacons[i]].position]

ClosestDistances(user) ==
    LET closest_beacons == get_closest_beacons(user, 3)
    IN  [i \in 1..Len(closest_beacons) |-> user.beacon_data[closest_beacons[i]].distance]

\* basic.py trilaterate on these inputs
BasicTrilaterate(user_id) ==
    /\ Step
    /\ last' = Call("basic_trilaterate", "", <<>>, TRUE, user_id, 0,
                    trilaterate(ClosestCoords(Entity(user_id)),
                                ClosestDistances(Entity(user_id))), None)
    /\ UNCHANGED <<heap, users>>

\* test_trilateration.py trilaterate on these inputs
TestTrilaterate(user_id) ==
    /\ Step
    /\ last' = Call("test_trilaterate", "", <<>>, TRUE, user_id, 0,
                    test_trilaterate(ClosestCoords(Entity(user_id)),
                                     ClosestDistances(Entity(user_id))), None)
    /\ UNCHANGED <<heap, users>>

InitEquiv ==
    /\ InitWorkers
    /\ InitServers
    /\ \E triple \in BeaconTriples : \E distances \in DistanceChoices(triple) :
           heap = <<SolveUser(triple, distances)>>
    /\ users = (<<"u">> :> 1)
    /\ last = Call("init", "", <<>>, FALSE, <<>>, 0, None, None)
    /\ nsteps = 0
    /\ limit = MaxEquivCalls

NextEquiv ==
    \/ ForceCalculatePosition(<<"u">>)
    \/ BasicTrilaterate(<<"u">>)
    \/ TestTrilaterate(<<"u">>)

SpecEquiv == InitEquiv /\ [][NextEquiv]_vars

(***************************************************************************)
(* SpecEstimate: the distance estimators as pure functions.                *)
(* User._rssi_to_distance receives the filtered RSSI, a float (here in     *)
(* 1/1000 dB); basic.py's estimate_distance the integer of the payload.    *)
(***************************************************************************)
FilteredInputs ==
    {r * RssiScale : r \in -120..5}
        \cup {TX_POWER * RssiScale - 1, TX_POWER * RssiScale + 1, -1, 1,
              -70 * RssiScale - 500, -115 * RssiScale - 500}

IntegerInputs == (TX_POWER - 56)..5

RssiToDistance(rssi) ==
    /\ Step
    /\ last' = Call("rssi_to_distance", "", <<>>, TRUE, <<>>, rssi,
                    <<rssi_to_distance(rssi)>>, None)
    /\ UNCHANGED <<heap, users>>

EstimateDistance(rssi) ==
    /\ Step
    /\ last' = Call("estimate_distance", "", <<>>, TRUE, <<>>, rssi,
                    estimate_distance(rssi), None)
    /\ UNCHANGED <<heap, users>>

InitEstimate == InitEngine /\ limit = MaxEstimateCalls

NextEstimate ==
    \/ \E rssi \in FilteredInputs : RssiToDistance(rssi)
    \/ \E rssi \in IntegerInputs : EstimateDistance(rssi)

SpecEstimate == InitEstimate /\ [][NextEstimate]_vars

(***************************************************************************)
(* SpecFilter: two entities and two beacons; each (entity, beacon) pair is *)
(* one run of a fresh filter, fed the samples -70 and -76 in any order.    *)
(***************************************************************************)
FilterEntities == {<<"u">>, <<"v">>}
FilterMacs == {"B1", "B2"}
FilterSamples == {-70, -76}

InitFilter == InitEngine /\ limit = MaxFilterSteps

NextFilter ==
    \E user_id \in FilterEntities, mac \in FilterMacs, rssi \in FilterSamples :
        UpdateRssi(user_id, mac, rssi)

SpecFilter == InitFilter /\ [][NextFilter]_vars

(***************************************************************************)
(* SpecRecover: every error condition of the handler, followed by valid    *)
(* samples: a payload that does not parse, the invalid reading 0, a beacon *)
(* that is not in the registry, fewer than three beacons, and the          *)
(* collinear beacons B1, B2, B4.                                           *)
(***************************************************************************)
RecoverNotifications ==
    ({"B1", "B2", "B4"} \X {<<"u", ":", "-", "7", "0">>, <<"u", ":", "0">>})
        \cup { <<"B1", <<"g", "a", "r", "b", "a", "g", "e">> >>,
               <<"B1", <<"v", ":", "-", "7", "0">> >>,
               <<UnknownMac, <<"u", ":", "-", "7", "0">> >> }

InitRecover == InitEngine /\ limit = MaxRecoverSteps

NextRecover == \E n \in RecoverNotifications : HandleNotification(n[1], n[2])

SpecRecover == InitRecover /\ [][NextRecover]_vars

(***************************************************************************)
(* SpecLoad: the beacon configuration is loaded, by Triangulation.__init__ *)
(* and by basic.py.  A configuration is a list of up to MaxConfigLen       *)
(* records; the coordinate string of a record is well formed ("0,0",       *)
(* "4,0", "1.5,3") or not ("x,0", "4").                                    *)
(***************************************************************************)
ToadoStrings ==
    { <<"0", ",", "0">>, <<"4", ",", "0">>, <<"1", ".", "5", ",", "3">>,
      <<"x", ",", "0">>, <<"4">> }

ConfigMacs == <<"B1", "B2", "B3", "B4">>

Configs ==
    UNION { [1..n -> ToadoStrings] : n \in 1..MaxConfigLen }

ConfigOf(toados) == [i \in 1..Len(toados) |-> [mac |-> ConfigMacs[i], toado |-> toados[i]]]

LoadConfig(toados) ==
    /\ Step
    /\ Len(toados) <= Len(ConfigMacs)
    /\ last' = Call("load", "", ConfigOf(toados), TRUE, <<>>, 0,
                    load_beacons(ConfigOf(toados)),
                    load_beacon_coords(ConfigOf(toados)))
    /\ UNCHANGED <<heap, users>>

InitLoad == InitEngine /\ limit = MaxLoadCalls

NextLoad == \E toados \in Configs : LoadConfig(toados)

SpecLoad == InitLoad /\ [][NextLoad]_vars

(***************************************************************************)
(* SpecStatus: samples of one entity, the force query and the status       *)
(* query, of the entity and of an entity that does not exist.              *)
(***************************************************************************)
StatusNotifications ==
    { <<"B1", <<"u", ":", "-", "7", "0">> >>,
      <<"B2", <<"u", ":", "-", "7", "0">> >>,
      <<"B3", <<"u", ":", "-", "7", "0">> >>,
      <<"B1", <<"u", ":", "-", "7", "6">> >>,
      <<"B3", <<"u", ":", "-", "5", "0">> >> }

InitStatus == InitEngine /\ limit = MaxStatusSteps

NextStatus ==
    \/ \E n \in StatusNotifications : HandleNotification(n[1], n[2])
    \/ ForceCalculatePosition(<<"u">>)
    \/ \E user_id \in UserIds : GetUserStatus(user_id)

SpecStatus == InitStatus /\ [][NextStatus]_vars

(***************************************************************************)
(* SpecHistory: long runs of one pair.  Entity u has been reported once by *)
(* B2, B3 and B1 at -70, which emitted its first position; B1 then reports *)
(* it at -56 or -89, sample after sample, so that its distance and the     *)
(* position keep moving.                                                   *)
(***************************************************************************)
HistorySamples == {-56, -89}

\* The store after update_rssi('u', mac, -70) for B2, B3, B1.
HistoryStore ==
    LET r1 == update_rssi(EmptyMap, <<>>, <<"u">>, "B2", -70)
        r2 == update_rssi(r1.users, r1.heap, <<"u">>, "B3", -70)
    IN  update_rssi(r2.users, r2.heap, <<"u">>, "B1", -70)

InitHistory ==
    /\ InitWorkers
    /\ InitServers
    /\ heap = HistoryStore.heap
    /\ users = HistoryStore.users
    /\ last = Call("init", "", <<>>, FALSE, <<>>, 0, None, None)
    /\ nsteps = 0
    /\ limit = MaxHistorySteps

NextHistory == \E rssi \in HistorySamples : UpdateRssi(<<"u">>, "B1", rssi)

SpecHistory == InitHistory /\ [][NextHistory]_vars

(***************************************************************************)
(* SpecCommit: bencons.py with an entity that is already located (heard at *)
(* -70 by B2, B3 and B1).  The workers of B1 and B2 then hear it at -56 or *)
(* -62 and run handleNotification concurrently.                            *)
(***************************************************************************)
CommitWorkers == {"B1", "B2"}

CommitPayloads ==
    { <<"u", ":", "-", "5", "6">>, <<"u", ":", "-", "6", "2">> }

InitCommit ==
    /\ InitWorkers
    /\ InitServers
    /\ heap = HistoryStore.heap
    /\ users = HistoryStore.users
    /\ last = Call("init", "", <<>>, FALSE, <<>>, 0, None, None)
    /\ nsteps = 0
    /\ limit = MaxCommitNotifications

NextCommit ==
    \/ \E t \in CommitWorkers, data \in CommitPayloads : Receive(t, data)
    \/ \E t \in CommitWorkers : CheckUser(t)
    \/ \E t \in CommitWorkers : LookupUser(t)
    \/ \E t \in CommitWorkers : FilterSample(t)
    \/ \E t \in CommitWorkers : RecordDistance(t)
    \/ \E t \in CommitWorkers : Gate(t)
    \/ \E t \in CommitWorkers : Solve(t)
    \/ \E t \in CommitWorkers : Commit(t)
    \/ \E t \in CommitWorkers : AppendHistory(t)
    \/ \E t \in CommitWorkers : Display(t)

SpecCommit == InitCommit /\ [][NextCommit]_vars

(***************************************************************************)
(* SpecRange: one (entity, beacon) pair fed samples that are strong, weak, *)
(* zero or positive, through Triangulation.update_rssi.                    *)
(***************************************************************************)
RangeSamples == {-98, -70, -40, 0, 5}

InitRange == InitEngine /\ limit = MaxRangeSteps

NextRange == \E rssi \in RangeSamples : UpdateRssi(<<"u">>, "B1", rssi)

SpecRange == InitRange /\ [][NextRange]_vars

(***************************************************************************)
(* SpecParse: every kind of payload, delivered at one beacon.              *)
(***************************************************************************)
ParsePayloads ==
    Payloads \cup
    { <<>>,
      <<"u", ":">>,
      <<":", "-", "7", "0">>,
      <<"u", " ", "-", "7", "0">>,
      <<"u", ":", " ", "-", "7", "6", "\n">> }

InitParse == InitEngine /\ limit = MaxParseSteps

NextParse == \E data \in ParsePayloads : HandleNotification("B1", data)

SpecParse == InitParse /\ [][NextParse]_vars

(***************************************************************************)
(* SpecBasic: basic.py.  The workers of B1, B2 and B3 run                  *)
(* BeaconDelegate.handleNotification concurrently.  The handler parses     *)
(* and filters on its own (the filter of a beacon is touched by the        *)
(* beacon's worker only), then does everything else, printing included,    *)
(* inside "with data_lock".                                                *)
(***************************************************************************)
BasicPayloads ==
    { <<"u", ":", "-", "7", "0">>,
      <<"v", ":", "-", "7", "6">>,
      <<"u", ":", "0">>,
      <<"u", ":", "x">>,
      <<"g", "a", "r", "b", "a", "g", "e">> }

\* print: n more lines on standard output, the last one of kind line, by t
WriteLines(t, n, line) == [lines |-> stdout.lines + n, by |-> t, line |-> line]

\* handleNotification up to the lock: a payload that is not two segments
\* is ignored; an RSSI segment that is no integer raises, is caught and
\* logged; RSSI 0 is dropped; else the sample passes the beacon's filter.
BasicReceive(t, data) ==
    /\ pc[t] = "idle"
    /\ nsteps < limit
    /\ nsteps' = nsteps + 1
    /\ LET parts == Split(Strip(data))
       IN  IF Len(parts) # 2
           THEN UNCHANGED <<pc, loc, kalman_filters, stdout>>
           ELSE LET rssi == ParseInt(parts[2])
                    raw_distance == estimate_distance(rssi.value)
                IN  IF ~rssi.ok
                    THEN /\ stdout' = WriteLines(t, 1, "error")
                         /\ UNCHANGED <<pc, loc, kalman_filters>>
                    ELSE IF raw_distance = None
                    THEN UNCHANGED <<pc, loc, kalman_filters, stdout>>
                    ELSE LET kf == Kalman2Update(Kalman2Predict(kalman_filters[t]),
                                                 raw_distance[1])
                         IN  /\ kalman_filters' = [kalman_filters EXCEPT ![t] = kf]
                             /\ loc' = [loc EXCEPT ![t] =
                                          [IdleLoc EXCEPT !.data = data,
                                                          !.user_id = parts[1],
                                                          !.rssi = rssi.value,
                                                          !.filtered = kf.x0]]
                             /\ Goto(t, "acquire")
                             /\ UNCHANGED stdout
    /\ UNCHANGED <<heap, users, last, limit, recorded, data_lock, user_data,
                   user_positions, current_rssi, emitted>>

\* with data_lock: the worker waits here while another worker holds it
BasicAcquire(t) ==
    /\ pc[t] = "acquire"
    /\ data_lock = None
    /\ data_lock' = <<t>>
    /\ Goto(t, "store")
    /\ UNCHANGED <<heap, users, last, nsteps, limit, loc, recorded, kalman_filters,
                   user_data, user_positions, current_rssi, stdout, emitted>>

\* user_data[user_id][self.mac] = filtered
BasicStore(t) ==
    /\ pc[t] = "store"
    /\ LET user_id == loc[t].user_id
           old == IF user_id \in DOMAIN user_data THEN user_data[user_id]
                  ELSE [order |-> <<>>, distance |-> EmptyMap]
       IN  user_data' =
               Put(user_data, user_id,
                   [order |-> IF t \in DOMAIN old.distance THEN old.order
                              ELSE Append(old.order, t),
                    distance |-> Put(old.distance, t, loc[t].filtered)])
    /\ Goto(t, "log_update")
    /\ UNCHANGED <<heap, users, last, nsteps, limit, loc, recorded, data_lock,
                   kalman_filters, user_positions, current_rssi, stdout, emitted>>

\* the update and the entity's distances are printed, one line per beacon
BasicLogUpdate(t) ==
    /\ pc[t] = "log_update"
    /\ stdout' = WriteLines(t, 2 + Len(user_data[loc[t].user_id].order), "update")
    /\ Goto(t, "solve")
    /\ UNCHANGED <<heap, users, last, nsteps, limit, loc, recorded, data_lock,
                   kalman_filters, user_data, user_positions, current_rssi, emitted>>

\* the entity's beacons with known coordinates, in the order of user_data;
\* with three of them trilaterate, and user_positions[user_id] = ...
BasicSolve(t) ==
    /\ pc[t] = "solve"
    /\ LET user_id == loc[t].user_id
           known == SelectSeq(user_data[user_id].order,
                              LAMBDA mac : mac \in DOMAIN beacon_coords)
           coords == [i \in 1..Len(known) |-> beacon_coords[known[i]]]
           dists == [i \in 1..Len(known) |-> user_data[user_id].distance[known[i]]]
           solved == trilaterate(coords, dists)
       IN  IF Len(coords) >= 3
           THEN IF solved.position # None
                THEN /\ user_positions' =
                            Put(user_positions, user_id,
                                [x |-> solved.position[1],
                                 y |-> solved.position[2],
                                 accuracy |-> solved.accuracy,
                                 beacons_used |-> SubSeq(known, 1, 3)])
                     /\ Goto(t, "log_position")
                ELSE /\ UNCHANGED user_positions
                     /\ Goto(t, "release")
           ELSE /\ UNCHANGED user_positions
                /\ Goto(t, "log_need")
    /\ UNCHANGED <<heap, users, last, nsteps, limit, loc, recorded, data_lock,
                   kalman_filters, user_data, current_rssi, stdout, emitted>>

\* the computed position is printed
BasicLogPosition(t) ==
    /\ pc[t] = "log_position"
    /\ stdout' = WriteLines(t, 6, "position")
    /\ Goto(t, "release")
    /\ UNCHANGED <<heap, users, last, nsteps, limit, loc, recorded, data_lock,
                   kalman_filters, user_data, user_positions, current_rssi, emitted>>

\* "Need at least 3 beacons" is printed
BasicLogNeed(t) ==
    /\ pc[t] = "log_need"
    /\ stdout' = WriteLines(t, 1, "need")
    /\ Goto(t, "release")
    /\ UNCHANGED <<heap, users, last, nsteps, limit, loc, recorded, data_lock,
                   kalman_filters, user_data, user_positions, current_rssi, emitted>>

\* the end of "with data_lock"; the handler returns
BasicRelease(t) ==
    /\ pc[t] = "release"
    /\ data_lock' = None
    /\ loc' = [loc EXCEPT ![t] = IdleLoc]
    /\ Goto(t, "idle")
    /\ UNCHANGED <<heap, users, last, nsteps, limit, recorded, kalman_filters,
                   user_data, user_positions, current_rssi, stdout, emitted>>

InitBasic == InitEngine /\ limit = MaxBasicNotifications

NextBasic ==
    \/ \E t \in Workers, data \in BasicPayloads : BasicReceive(t, data)
    \/ \E t \in Workers : BasicAcquire(t)
    \/ \E t \in Workers : BasicStore(t)
    \/ \E t \in Workers : BasicLogUpdate(t)
    \/ \E t \in Workers : BasicSolve(t)
    \/ \E t \in Workers : BasicLogPosition(t)
    \/ \E t \in Workers : BasicLogNeed(t)
    \/ \E t \in Workers : BasicRelease(t)

SpecBasic == InitBasic /\ [][NextBasic]_vars

(***************************************************************************)
(* SpecBasicFour: the listener of basic.py with the connections of all     *)
(* four beacons and one entity; B1 hears it at -76, the others at -70.     *)
(***************************************************************************)
FourPayloads ==
    [mac \in Macs |-> IF mac = "B1" THEN <<"u", ":", "-", "7", "6">>
                      ELSE <<"u", ":", "-", "7", "0">>]

InitBasicFour == InitEngine /\ limit = MaxFourNotifications

NextBasicFour ==
    \/ \E t \in Macs : BasicReceive(t, FourPayloads[t])
    \/ \E t \in Macs : BasicAcquire(t)
    \/ \E t \in Macs : BasicStore(t)
    \/ \E t \in Macs : BasicLogUpdate(t)
    \/ \E t \in Macs : BasicSolve(t)
    \/ \E t \in Macs : BasicLogPosition(t)
    \/ \E t \in Macs : BasicLogNeed(t)
    \/ \E t \in Macs : BasicRelease(t)

SpecBasicFour == InitBasicFour /\ [][NextBasicFour]_vars

(***************************************************************************)
(* SpecExport: basic.py's queries beside the listener.  The workers of B1  *)
(* and B2 run handleNotification; one more thread calls                    *)
(* export_positions_json and get_user_data_with_position.  pc and loc have *)
(* one slot per beacon connection: the calling thread takes the slot of    *)
(* B4, whose connection does not run here.  data_lock is a threading.Lock: *)
(* acquiring it waits until it is free, whoever holds it.                  *)
(***************************************************************************)
ExportWorkers == {"B1", "B2"}

Caller == "B4"

ExportPayloads == { <<"u", ":", "-", "7", "0">>, <<"v", ":", "-", "7", "6">> }

ExportUsers == { <<"u">>, <<"v">> }

\* The locals of a query: all_data of export_positions_json, the keys of
\* user_data still to visit, the argument and the result of
\* get_user_data_with_position, and whether export_positions_json called it.
QueryLoc ==
    [all_data |-> EmptyMap, pending |-> {}, user_id |-> <<>>, result |-> None,
     nested |-> FALSE]

\* The dictionary get_user_data_with_position builds for user_id from
\* user_data ud and user_positions up.  Distances are whole centimetres, so
\* round(distance, 2) on metres leaves them as they are.
get_user_data_with_position(ud, up, user_id) ==
    [user_id |-> user_id,
     distances |-> IF user_id \in DOMAIN ud THEN ud[user_id].distance ELSE EmptyMap,
     position |-> IF user_id \in DOMAIN up THEN <<up[user_id]>> ELSE None]

\* export_positions_json is called: all_data = {}
ExportCall(t) ==
    /\ pc[t] = "idle"
    /\ nsteps < limit
    /\ nsteps' = nsteps + 1
    /\ loc' = [loc EXCEPT ![t] = QueryLoc]
    /\ Goto(t, "export_acquire")
    /\ UNCHANGED <<heap, users, last, limit, recorded, data_lock, kalman_filters,
                   user_data, user_positions, current_rssi, stdout, emitted>>

\* export_positions_json, "with data_lock", and the iterator over
\* user_data.keys() is made
ExportAcquire(t) ==
    /\ pc[t] = "export_acquire"
    /\ data_lock = None
    /\ data_lock' = <<t>>
    /\ loc' = [loc EXCEPT ![t].pending = DOMAIN user_data]
    /\ Goto(t, "export_loop")
    /\ UNCHANGED <<heap, users, last, nsteps, limit, recorded, kalman_filters,
                   user_data, user_positions, current_rssi, stdout, emitted>>

\* "for user_id in user_data.keys()": the next key is passed to
\* get_user_data_with_position, or the loop ends.  all_data is a dictionary,
\* the order of the keys does not show in it.
ExportLoop(t) ==
    /\ pc[t] = "export_loop"
    /\ IF loc[t].pending = {}
       THEN /\ Goto(t, "export_release")
            /\ UNCHANGED loc
       ELSE \E user_id \in loc[t].pending :
                /\ loc' = [loc EXCEPT ![t].user_id = user_id,
                                      ![t].pending = loc[t].pending \ {user_id},
                                      ![t].nested = TRUE]
                /\ Goto(t, "get_acquire")
    /\ UNCHANGED <<heap, users, last, nsteps, limit, recorded, data_lock,
                   kalman_filters, user_data, user_positions, current_rssi, stdout,
                   emitted>>

\* the end of export_positions_json's "with data_lock"; json.dumps(all_data)
\* is returned, all_data stays in loc
ExportRelease(t) ==
    /\ pc[t] = "export_release"
    /\ data_lock' = None
    /\ Goto(t, "idle")
    /\ UNCHANGED <<heap, users, last, nsteps, limit, loc, recorded, kalman_filters,
                   user_data, user_positions, current_rssi, stdout, emitted>>

\* get_user_data_with_position is called by the thread itself
GetUserDataCall(t, user_id) ==
    /\ pc[t] = "idle"
    /\ nsteps < limit
    /\ nsteps' = nsteps + 1
    /\ loc' = [loc EXCEPT ![t] = [QueryLoc EXCEPT !.user_id = user_id]]
    /\ Goto(t, "get_acquire")
    /\ UNCHANGED <<heap, users, last, limit, recorded, data_lock, kalman_filters,
                   user_data, user_positions, current_rssi, stdout, emitted>>

\* get_user_data_with_position, "with data_lock": the thread waits here
\* while the lock is held
GetUserDataAcquire(t) ==
    /\ pc[t] = "get_acquire"
    /\ data_lock = None
    /\ data_lock' = <<t>>
    /\ Goto(t, "get_body")
    /\ UNCHANGED <<heap, users, last, nsteps, limit, loc, recorded, kalman_filters,
                   user_data, user_positions, current_rssi, stdout, emitted>>

\* the result dictionary is built
GetUserDataBody(t) ==
    /\ pc[t] = "get_body"
    /\ loc' = [loc EXCEPT ![t].result =
                  <<get_user_data_with_position(user_data, user_positions,
                                                loc[t].user_id)>>]
    /\ Goto(t, "get_release")
    /\ UNCHANGED <<heap, users, last, nsteps, limit, recorded, data_lock,
                   kalman_filters, user_data, user_positions, current_rssi, stdout,
                   emitted>>

\* the end of get_user_data_with_position's "with data_lock" and its return:
\* to the loop of export_positions_json, which stores the result in
\* all_data, or to the thread
GetUserDataRelease(t) ==
    /\ pc[t] = "get_release"
    /\ data_lock' = None
    /\ IF loc[t].nested
       THEN /\ loc' = [loc EXCEPT ![t].all_data =
                          Put(loc[t].all_data, loc[t].user_id, loc[t].result[1]),
                                  ![t].nested = FALSE]
            /\ Goto(t, "export_loop")
       ELSE /\ UNCHANGED loc
            /\ Goto(t, "idle")
    /\ UNCHANGED <<heap, users, last, nsteps, limit, recorded, kalman_filters,
                   user_data, user_positions, current_rssi, stdout, emitted>>

InitExport == InitEngine /\ limit = MaxExportSteps

NextExport ==
    \/ \E t \in ExportWorkers, data \in ExportPayloads : BasicReceive(t, data)
    \/ \E t \in ExportWorkers : BasicAcquire(t)
    \/ \E t \in ExportWorkers : BasicStore(t)
    \/ \E t \in ExportWorkers : BasicLogUpdate(t)
    \/ \E t \in ExportWorkers : BasicSolve(t)
    \/ \E t \in ExportWorkers : BasicLogNeed(t)
    \/ \E t \in ExportWorkers : BasicRelease(t)
    \/ ExportCall(Caller)
    \/ ExportAcquire(Caller)
    \/ ExportLoop(Caller)
    \/ ExportRelease(Caller)
    \/ \E user_id \in ExportUsers : GetUserDataCall(Caller, user_id)
    \/ GetUserDataAcquire(Caller)
    \/ GetUserDataBody(Caller)
    \/ GetUserDataRelease(Caller)

SpecExport == InitExport /\ [][NextExport]_vars

(***************************************************************************)
(* SpecConnect: BeaconConnection.connect_and_listen and the shutdown path  *)
(* of the three programs.  One of bencons.py, basic.py and app.py runs,    *)
(* with the connection threads of B1 and B2; the main thread takes the     *)
(* slot of B4.  The wireless library is the environment: connecting        *)
(* succeeds or raises, waitForNotifications returns or raises.  What the   *)
(* delegate does with a payload is the subject of the other                *)
(* specifications; here a notification only lets the loop go round.        *)
(***************************************************************************)
Programs == {"bencons", "basic", "app"}

ConnWorkers == {"B1", "B2"}

ConnOrder == <<"B1", "B2">>

MainThread == "B4"

\* BeaconConnection.__init__: running of basic.py and app.py, is_connected
\* of bencons.py, and whether self.peripheral is None, a live link or a
\* link that was disconnected.
NewConnection == [running |-> TRUE, is_connected |-> FALSE, peripheral |-> "none"]

\* Peripheral(mac) and the subscription: it succeeds, Peripheral() raises,
\* or a later call raises with self.peripheral already set.
ConnectOutcomes == {"ok", "refused", "no_characteristic"}

\* waitForNotifications: True, False, BTLEException or another exception
WaitOutcomes == {"notified", "timeout", "btle_error", "error"}

\* BeaconConnection.disconnect on the connection c of a program
disconnect(program, c) ==
    LET closed == IF c.peripheral = "none" THEN "none" ELSE "closed"
    IN  IF program = "bencons"
        THEN [c EXCEPT !.is_connected = FALSE, !.peripheral = closed]
        ELSE [c EXCEPT !.running = FALSE, !.peripheral = closed]

\* The program that runs, and the connections the shutdown path has called
\* disconnect() on.
Program == loc[MainThread].program

Stopped == loc[MainThread].stopped

\* Daemon threads run while the process does.
ProcessAlive == pc[MainThread] # "exited"

ConnFrame == UNCHANGED <<heap, users, last, limit, recorded, serverVars>>

\* The top of the loop.  bencons.py: "while True", self.disconnect() and
\* sleep(1).  basic.py, app.py: "while self.running", else the thread ends.
ConnLoop(t) ==
    /\ ProcessAlive
    /\ pc[t] = "loop"
    /\ IF Program = "bencons"
       THEN /\ loc' = [loc EXCEPT ![t] = disconnect(Program, loc[t])]
            /\ Goto(t, "connect")
       ELSE /\ UNCHANGED loc
            /\ Goto(t, IF loc[t].running THEN "connect" ELSE "done")
    /\ UNCHANGED nsteps
    /\ ConnFrame

\* A connection attempt: Peripheral(self.mac), setDelegate, getCharacteristics,
\* writeCharacteristic; bencons.py then sets is_connected.  An exception
\* is printed (bencons.py sleeps 2 s) and control goes to "finally".
ConnConnect(t, outcome) ==
    /\ ProcessAlive
    /\ pc[t] = "connect"
    /\ nsteps < limit
    /\ nsteps' = nsteps + 1
    /\ IF outcome = "ok"
       THEN /\ loc' = [loc EXCEPT ![t].peripheral = "open",
                                  ![t].is_connected =
                                      IF Program = "bencons" THEN TRUE ELSE @]
            /\ Goto(t, "listen")
       ELSE /\ loc' = [loc EXCEPT ![t].peripheral =
                                      IF outcome = "refused" THEN @ ELSE "open"]
            /\ Goto(t, "finally")
    /\ ConnFrame

\* One round of the inner loop: "while self.is_connected" (bencons.py) or
\* "while self.running" (basic.py, app.py), then waitForNotifications.  On a
\* link that was disconnected the wait raises BTLEException.  bencons.py
\* catches other exceptions inside the loop and goes on; in basic.py and
\* app.py every exception leaves the loop.
ConnListen(t, outcome) ==
    /\ ProcessAlive
    /\ pc[t] = "listen"
    /\ LET flag == IF Program = "bencons" THEN loc[t].is_connected
                   ELSE loc[t].running
           stays == \/ outcome \in {"notified", "timeout"}
                    \/ outcome = "error" /\ Program = "bencons"
       IN  IF ~flag
           THEN /\ outcome = "timeout"
                /\ Goto(t, "finally")
                /\ UNCHANGED nsteps
           ELSE /\ loc[t].peripheral = "closed" => outcome = "btle_error"
                /\ IF stays
                   THEN /\ nsteps < limit
                        /\ nsteps' = nsteps + 1
                        /\ UNCHANGED pc
                   ELSE /\ Goto(t, "finally")
                        /\ UNCHANGED nsteps
    /\ UNCHANGED loc
    /\ ConnFrame

\* "finally": self.disconnect(); bencons.py also sets self.peripheral = None;
\* basic.py sleeps 5 s, app.py only if still running.  Back to the top.
ConnFinally(t) ==
    /\ ProcessAlive
    /\ pc[t] = "finally"
    /\ loc' = [loc EXCEPT ![t] =
                 IF Program = "bencons"
                 THEN [disconnect(Program, loc[t]) EXCEPT !.peripheral = "none"]
                 ELSE disconnect(Program, loc[t])]
    /\ Goto(t, "loop")
    /\ UNCHANGED nsteps
    /\ ConnFrame

\* The operator presses Ctrl+C: KeyboardInterrupt in the main thread.
ShutdownBegin ==
    /\ pc[MainThread] = "serving"
    /\ Goto(MainThread, "disconnecting")
    /\ UNCHANGED <<loc, nsteps>>
    /\ ConnFrame

\* "for conn in connections: conn.disconnect()", one connection
ShutdownDisconnect ==
    /\ pc[MainThread] = "disconnecting"
    /\ loc[MainThread].next <= Len(ConnOrder)
    /\ LET t == ConnOrder[loc[MainThread].next]
       IN  loc' = [loc EXCEPT ![t] = disconnect(Program, loc[t]),
                              ![MainThread].next = @ + 1,
                              ![MainThread].stopped = @ \cup {t}]
    /\ UNCHANGED <<pc, nsteps>>
    /\ ConnFrame

\* The main thread ends and the daemon threads with it.  bencons.py first
\* waits for each thread, for 2 s at most.
ShutdownExit ==
    /\ pc[MainThread] = "disconnecting"
    /\ loc[MainThread].next > Len(ConnOrder)
    /\ Goto(MainThread, "exited")
    /\ UNCHANGED <<loc, nsteps>>
    /\ ConnFrame

InitConnect ==
    /\ InitServers
    /\ heap = <<>>
    /\ users = EmptyMap
    /\ last = Call("init", "", <<>>, FALSE, <<>>, 0, None, None)
    /\ nsteps = 0
    /\ limit = MaxConnectSteps
    /\ recorded = [t \in Macs |-> EmptyMap]
    /\ pc = [t \in Macs |-> IF t \in ConnWorkers THEN "loop"
                            ELSE IF t = MainThread THEN "serving" ELSE "idle"]
    /\ \E program \in Programs :
           loc = [t \in Macs |->
                    IF t \in ConnWorkers THEN NewConnection
                    ELSE IF t = MainThread
                    THEN [program |-> program, next |-> 1, stopped |-> {}]
                    ELSE IdleLoc]

NextConnect ==
    \/ \E t \in ConnWorkers : ConnLoop(t)
    \/ \E t \in ConnWorkers, outcome \in ConnectOutcomes : ConnConnect(t, outcome)
    \/ \E t \in ConnWorkers, outcome \in WaitOutcomes : ConnListen(t, outcome)
    \/ \E t \in ConnWorkers : ConnFinally(t)
    \/ ShutdownBegin
    \/ ShutdownDisconnect
    \/ ShutdownExit

SpecConnect == InitConnect /\ [][NextConnect]_vars

(***************************************************************************)
(* SpecUnlisted: basic.py with a beacon of bencons.json whose coordinates  *)
(* were skipped when beacon_coords was built.  main connects every beacon  *)
(* of the file, so the beacon has a connection, a delegate and a filter    *)
(* like B1, but no entry in beacon_coords.                                 *)
(***************************************************************************)
UnlistedWorkers == {"B1", UnknownMac}

UnlistedPayloads ==
    { <<"u", ":", "-", "7", "0">>, <<"u", ":", "-", "7", "6">> }

InitUnlisted ==
    /\ pc = [t \in Macs \cup {UnknownMac} |-> "idle"]
    /\ loc = [t \in Macs \cup {UnknownMac} |-> IdleLoc]
    /\ recorded = [t \in Macs \cup {UnknownMac} |-> EmptyMap]
    /\ data_lock = None
    /\ kalman_filters = [mac \in Macs \cup {UnknownMac} |-> create_kalman_filter]
    /\ user_data = EmptyMap
    /\ user_positions = EmptyMap
    /\ current_rssi = EmptyMap
    /\ stdout = [lines |-> 0, by |-> "", line |-> ""]
    /\ emitted = [events |-> 0, by |-> "", rssi |-> 0]
    /\ heap = <<>>
    /\ users = EmptyMap
    /\ last = Call("init", "", <<>>, FALSE, <<>>, 0, None, None)
    /\ nsteps = 0
    /\ limit = MaxUnlistedNotifications

NextUnlisted ==
    \/ \E t \in UnlistedWorkers, data \in UnlistedPayloads : BasicReceive(t, data)
    \/ \E t \in UnlistedWorkers : BasicAcquire(t)
    \/ \E t \in UnlistedWorkers : BasicStore(t)
    \/ \E t \in UnlistedWorkers : BasicLogUpdate(t)
    \/ \E t \in UnlistedWorkers : BasicSolve(t)
    \/ \E t \in UnlistedWorkers : BasicLogNeed(t)
    \/ \E t \in UnlistedWorkers : BasicRelease(t)

SpecUnlisted == InitUnlisted /\ [][NextUnlisted]_vars

(***************************************************************************)
(* SpecApp: app.py.  The workers of B1, B2 and B3 run                      *)
(* WebBeaconDelegate.handleNotification concurrently: the payload is       *)
(* logged and parsed, then current_rssi is written, a line is printed and  *)
(* the update is emitted to the clients, all inside "with data_lock".      *)
(***************************************************************************)
AppPayloads ==
    { <<"u", ":", "-", "7", "0">>,
      <<"-", "7", "6">>,
      <<"u", ":", "-", "7", "0", ":", "x">>,
      <<"u", ":", "x">>,
      <<"g", "a", "r", "b", "a", "g", "e">> }

\* The RSSI app.py reads from a payload: the second segment when there is
\* a colon, else the whole payload; ok = FALSE when int() raises.
app_parse(data) ==
    IF ~HasNoColon(data) THEN ParseInt(Split(Strip(data))[2])
    ELSE ParseInt(Strip(data))

\* handleNotification up to the lock: the raw payload is printed; a
\* payload that does not parse is logged and dropped.
AppReceive(t, data) ==
    /\ pc[t] = "idle"
    /\ nsteps < limit
    /\ nsteps' = nsteps + 1
    /\ LET rssi == app_parse(data)
       IN  IF ~rssi.ok
           THEN /\ stdout' = WriteLines(t, 2, "error")
                /\ UNCHANGED <<pc, loc>>
           ELSE /\ stdout' = WriteLines(t, 1, "raw")
                /\ loc' = [loc EXCEPT ![t] = [IdleLoc EXCEPT !.data = data,
                                                            !.rssi = rssi.value]]
                /\ Goto(t, "app_acquire")
    /\ UNCHANGED <<heap, users, last, limit, recorded, data_lock, kalman_filters,
                   user_data, user_positions, current_rssi, emitted>>

\* with data_lock
AppAcquire(t) ==
    /\ pc[t] = "app_acquire"
    /\ data_lock = None
    /\ data_lock' = <<t>>
    /\ Goto(t, "app_store")
    /\ UNCHANGED <<heap, users, last, nsteps, limit, loc, recorded, kalman_filters,
                   user_data, user_positions, current_rssi, stdout, emitted>>

\* current_rssi[self.mac] = {'rssi': rssi, 'timestamp': time.time()}
AppStore(t) ==
    /\ pc[t] = "app_store"
    /\ current_rssi' = Put(current_rssi, t, [rssi |-> loc[t].rssi,
                                             timestamp |-> time_time])
    /\ Goto(t, "app_log")
    /\ UNCHANGED <<heap, users, last, nsteps, limit, loc, recorded, data_lock,
                   kalman_filters, user_data, user_positions, stdout, emitted>>

\* print(f"[{beacon_name}] RSSI: {rssi} dBm ...")
AppLog(t) ==
    /\ pc[t] = "app_log"
    /\ stdout' = WriteLines(t, 1, "rssi")
    /\ Goto(t, "app_emit")
    /\ UNCHANGED <<heap, users, last, nsteps, limit, loc, recorded, data_lock,
                   kalman_filters, user_data, user_positions, current_rssi, emitted>>

\* socketio.emit('rssi_update', ...)
AppEmit(t) ==
    /\ pc[t] = "app_emit"
    /\ emitted' = [events |-> emitted.events + 1, by |-> t, rssi |-> loc[t].rssi]
    /\ Goto(t, "app_release")
    /\ UNCHANGED <<heap, users, last, nsteps, limit, loc, recorded, data_lock,
                   kalman_filters, user_data, user_positions, current_rssi, stdout>>

\* the end of "with data_lock"; the handler returns
AppRelease(t) ==
    /\ pc[t] = "app_release"
    /\ data_lock' = None
    /\ loc' = [loc EXCEPT ![t] = IdleLoc]
    /\ Goto(t, "idle")
    /\ UNCHANGED <<heap, users, last, nsteps, limit, recorded, kalman_filters,
                   user_data, user_positions, current_rssi, stdout, emitted>>

InitApp == InitEngine /\ limit = MaxAppNotifications

NextApp ==
    \/ \E t \in Workers, data \in AppPayloads : AppReceive(t, data)
    \/ \E t \in Workers : AppAcquire(t)
    \/ \E t \in Workers : AppStore(t)
    \/ \E t \in Workers : AppLog(t)
    \/ \E t \in Workers : AppEmit(t)
    \/ \E t \in Workers : AppRelease(t)

SpecApp == InitApp /\ [][NextApp]_vars

(***************************************************************************)
(* SpecFingerprint: app.py, the requests /api/save_fingerprint and         *)
(* /api/fingerprints/clear beside the beacon threads of B1 and B2.  The    *)
(* module globals fingerprints and the file fingerprints.json, and the     *)
(* response of the last request, are kept in the frame of the main thread. *)
(* Tick lets time pass; a save request runs as one step once data_lock is  *)
(* free, which is how the beacon threads see it.                           *)
(***************************************************************************)
FingerprintWorkers == {"B1", "B2"}

FingerprintPayloads == { <<"u", ":", "-", "7", "0">> }

\* request.json: no body, a location, a location whose x is null
FingerprintRequests ==
    { None,
      <<[x |-> <<1>>, y |-> <<2>>]>>,
      <<[x |-> None, y |-> <<2>>]>> }

\* open('fingerprints.json', 'w') succeeds or raises
IoOutcomes == {"ok", "io_error"}

\* a fingerprint that fingerprints.json held when the program started
StoredFingerprint ==
    [timestamp |-> 0, location |-> [x |-> 0, y |-> 0],
     readings |-> Put(EmptyMap, "beacon1", [mac |-> "B1", rssi |-> -70])]

fingerprints == loc[MainThread].fingerprints
fingerprints_file == loc[MainThread].file
response == loc[MainThread].response

BeaconNames == <<"beacon1", "beacon2", "beacon3", "beacon4">>

\* f'beacon{i+1}' for the first configured beacon with this mac, else mac
get_beacon_name(mac) ==
    IF \E i \in DOMAIN ConfigMacs : ConfigMacs[i] = mac
    THEN BeaconNames[CHOOSE i \in DOMAIN ConfigMacs :
                        /\ ConfigMacs[i] = mac
                        /\ \A j \in 1..(i - 1) : ConfigMacs[j] # mac]
    ELSE mac

\* json.dump(fingerprints, f) into a file opened for writing
save_fingerprints(fps, file, io) == IF io = "ok" THEN <<fps>> ELSE file

\* Mutant of RecentReadings: every reading is taken, whatever its age.
RecentReadings_any_age(cr, now) ==
    [name \in {get_beacon_name(mac) : mac \in DOMAIN cr} |->
        LET mac == CHOOSE m \in DOMAIN cr : get_beacon_name(m) = name
        IN  [mac |-> mac, rssi |-> cr[mac].rssi]]

\* The loop over current_rssi.items(): a reading no older than
\* MaxReadingAge is filed under its beacon's name (the names of distinct
\* configured beacons are distinct).
RecentReadings(cr, now) ==
    LET recent == {mac \in DOMAIN cr : now - cr[mac].timestamp <= MaxReadingAge}
    IN  [name \in {get_beacon_name(mac) : mac \in recent} |->
            LET mac == CHOOSE m \in recent : get_beacon_name(m) = name
            IN  [mac |-> mac, rssi |-> cr[mac].rssi]]

Answer(status, error, fps, file, lines) ==
    [status |-> status, error |-> error, fingerprints |-> fps, file |-> file,
     lines |-> lines]

\* save_fingerprint: no body is 400; float() of a null coordinate raises
\* and is answered 500; under data_lock an empty current_rssi is 400, a
\* fingerprint without a recent reading is 400; else the fingerprint is
\* appended and the list saved, and an exception of the save is answered
\* 500 after the append.  lines counts the request, table and result
\* lines printed.
save_fingerprint(data, cr, fps, file, now, io) ==
    IF data = None THEN Answer(400, "no_json", fps, file, 1)
    ELSE IF data[1].x = None \/ data[1].y = None
    THEN Answer(500, "server_error", fps, file, 2)
    ELSE IF DOMAIN cr = {} THEN Answer(400, "no_rssi", fps, file, 2)
    ELSE LET readings == RecentReadings(cr, now)
             fingerprint == [timestamp |-> now,
                             location |-> [x |-> data[1].x[1], y |-> data[1].y[1]],
                             readings |-> readings]
             appended == Append(fps, fingerprint)
         IN  IF DOMAIN readings = {} THEN Answer(400, "no_recent", fps, file, 2)
             ELSE IF io # "ok"
             THEN Answer(500, "server_error", appended, file, 3)
             ELSE Answer(200, "", appended, save_fingerprints(appended, file, io), 3)

\* the request reaches "with data_lock"
TakesLock(data) == data # None /\ data[1].x # None /\ data[1].y # None

\* POST /api/save_fingerprint
SaveFingerprint(data, io) ==
    /\ TakesLock(data) => data_lock = None
    /\ nsteps < limit
    /\ nsteps' = nsteps + 1
    /\ LET r == save_fingerprint(data, current_rssi, fingerprints,
                                 fingerprints_file, time_time, io)
       IN  /\ loc' = [loc EXCEPT ![MainThread] =
                        [fingerprints |-> r.fingerprints, file |-> r.file,
                         response |-> [op |-> "save_fingerprint",
                                       status |-> r.status, error |-> r.error]]]
           /\ stdout' = WriteLines(MainThread, r.lines, "fingerprint")
    /\ UNCHANGED <<heap, users, last, limit, pc, recorded, data_lock, kalman_filters,
                   user_data, user_positions, current_rssi, emitted>>

\* POST /api/fingerprints/clear: fingerprints = [] and save_fingerprints(),
\* without data_lock; an exception of the save is answered 500 by Flask.
ClearFingerprints(io) ==
    /\ nsteps < limit
    /\ nsteps' = nsteps + 1
    /\ loc' = [loc EXCEPT ![MainThread] =
                 [fingerprints |-> <<>>,
                  file |-> save_fingerprints(<<>>, fingerprints_file, io),
                  response |-> [op |-> "clear_fingerprints",
                                status |-> IF io = "ok" THEN 200 ELSE 500,
                                error |-> IF io = "ok" THEN "" ELSE "server_error"]]]
    /\ UNCHANGED <<heap, users, last, limit, pc, recorded, serverVars>>

\* SecondsPerStep seconds pass
Tick ==
    /\ Step
    /\ UNCHANGED <<heap, users, last>>

\* fingerprints.json is absent, or holds the fingerprints loaded at start
InitFingerprint ==
    /\ InitServers
    /\ heap = <<>>
    /\ users = EmptyMap
    /\ last = Call("init", "", <<>>, FALSE, <<>>, 0, None, None)
    /\ nsteps = 0
    /\ limit = MaxFingerprintSteps
    /\ pc = [t \in Macs |-> "idle"]
    /\ recorded = [t \in Macs |-> EmptyMap]
    /\ \E stored \in {<<>>, <<StoredFingerprint>>} :
          loc = [t \in Macs |->
                    IF t = MainThread
                    THEN [fingerprints |-> stored,
                          file |-> IF stored = <<>> THEN None ELSE <<stored>>,
                          response |-> [op |-> "", status |-> 0, error |-> ""]]
                    ELSE IdleLoc]

NextFingerprint ==
    \/ \E t \in FingerprintWorkers, data \in FingerprintPayloads : AppReceive(t, data)
    \/ \E t \in FingerprintWorkers : AppAcquire(t)
    \/ \E t \in FingerprintWorkers : AppStore(t)
    \/ \E t \in FingerprintWorkers : AppLog(t)
    \/ \E t \in FingerprintWorkers : AppEmit(t)
    \/ \E t \in FingerprintWorkers : AppRelease(t)
    \/ \E data \in FingerprintRequests, io \in IoOutcomes : SaveFingerprint(data, io)
    \/ \E io \in IoOutcomes : ClearFingerprints(io)
    \/ Tick

SpecFingerprint == InitFingerprint /\ [][NextFingerprint]_vars

(***************************************************************************)
(* Vocabulary of the properties.                                           *)
(***************************************************************************)
\* The state of entity e in the store (us, hp); an entity the store does not
\* hold has the state of a fresh one.
EntityOf(us, hp, e) == IF e \in DOMAIN us THEN hp[us[e]] ELSE NewUser(e)

\* This step is a call that delivered a parsed sample (a notification or a
\* direct update_rssi) to the engine.
IngestStep ==
    /\ nsteps' = nsteps + 1
    /\ last'.op \in {"notify", "update"}
    /\ last'.parsed

\* The entity of the sample before and after the step.
Before == EntityOf(users, heap, last'.user_id)
After == EntityOf(users', heap', last'.user_id)

\* What is recorded for one beacon of an entity: its entry in beacon_data
\* (distance, raw history) and its filter.
BeaconView(user, mac) ==
    [data |-> IF mac \in DOMAIN user.beacon_data
              THEN <<user.beacon_data[mac]>> ELSE None,
     filter |-> IF mac \in DOMAIN user.kalman_filters
                THEN <<user.kalman_filters[mac]>> ELSE None]

\* The distance-level gate of update_beacon_rssi, read off the step: the
\* beacon is new for the entity or its recorded distance moved by more
\* than 0.5 m.
DistanceGateOpen ==
    \/ last'.mac \notin DOMAIN Before.beacon_data
    \/ Abs(After.beacon_data[last'.mac].distance
             - Before.beacon_data[last'.mac].distance) > DISTANCE_THRESHOLD

\* "<entity_id>:<integer>"
WellFormed(data) == Len(Split(data)) = 2 /\ ParseInt(Split(data)[2]).ok

(***************************************************************************)
(* C1.  Whatever the interleaving of the workers of B1, B2 and B3          *)
(* reporting one entity, once every handler has returned the entity's      *)
(* state holds the distance each worker recorded last: no update is lost.  *)
(* Two workers that both find a new entity missing each store a User of    *)
(* their own; the update made on the first is lost with it.                *)
(***************************************************************************)
C1_NoUpdateLost ==
    (\A t \in Workers : pc[t] = "idle")
        => \A t \in Workers : \A e \in DOMAIN recorded[t] :
              /\ e \in DOMAIN users
              /\ t \in DOMAIN Entity(e).beacon_data
              /\ Entity(e).beacon_data[t].distance = recorded[t][e]

(***************************************************************************)
(* C2.  Updates of one entity are serialized: while a worker is inside     *)
(* update_rssi for an entity, no other worker is inside update_rssi for    *)
(* the same entity.  update_rssi takes no lock, so this is violated.       *)
(***************************************************************************)
InUpdate(t) == pc[t] \in {"check", "create", "lookup", "filter", "record",
                          "gate", "solve", "commit"}

C2_SerializedPerEntity ==
    \A t1 \in Workers, t2 \in Workers :
        (t1 # t2 /\ InUpdate(t1) /\ InUpdate(t2))
            => loc[t1].user_id # loc[t2].user_id

(***************************************************************************)
(* C3.  An update of one entity never waits for an update of another       *)
(* entity that is in progress: a worker that waits for the lock guarding   *)
(* the entity state waits for a worker updating the same entity.           *)
(* basic.py guards user_data and user_positions of all entities with the   *)
(* one data_lock, so this is violated.                                     *)
(***************************************************************************)
C3_NoWaitAcrossEntities ==
    \A t \in Workers, holder \in Workers :
        (pc[t] = "acquire" /\ data_lock = <<holder>> /\ holder # t)
            => loc[holder].user_id = loc[t].user_id

(***************************************************************************)
(* C4.  The slow side effects of handling a sample happen after the        *)
(* critical section is left: a worker neither prints nor emits to the      *)
(* clients while it holds the lock.                                        *)
(* app.py prints and emits inside "with data_lock" (as basic.py prints),   *)
(* so this is violated.                                                    *)
(***************************************************************************)
C4_SideEffectsOutsideLock ==
    [][/\ (stdout' # stdout => data_lock # <<stdout'.by>>)
       /\ (emitted' # emitted => data_lock # <<emitted'.by>>)]_vars

(***************************************************************************)
(* C5.  A sample whose RSSI is 0 or positive leaves the entity's state     *)
(* unchanged: the beacon's recorded distance and raw history, the          *)
(* (entity, beacon) filter and the set of beacons recorded for the entity  *)
(* are the same after the call as before it.                               *)
(* The code filters and records every sample, so this is violated.         *)
(***************************************************************************)
C5_InvalidReadingLeavesStateUnchanged ==
    [][(IngestStep /\ last'.rssi >= 0 /\ last'.mac \in Macs)
         => /\ BeaconView(After, last'.mac) = BeaconView(Before, last'.mac)
            /\ DOMAIN After.beacon_data = DOMAIN Before.beacon_data]_vars

(***************************************************************************)
(* C6.  A sample whose RSSI is 0 or positive never produces a position     *)
(* event: update_rssi returns None for it.                                 *)
(* The code lets it through the filter; on a beacon already recorded it    *)
(* moves the distance and an event is returned, so this is violated.       *)
(***************************************************************************)
C6_InvalidReadingReturnsNone ==
    (last.op \in {"notify", "update"} /\ last.parsed /\ last.rssi >= 0)
        => last.ret = None

(***************************************************************************)
(* C7.  A payload with no colon that is not an integer ("garbage") is      *)
(* rejected with a parse error and changes nothing: no entity is created   *)
(* and no filter, distance, last position or history is modified.          *)
(***************************************************************************)
C7_GarbageRejected ==
    [][(nsteps' = nsteps + 1 /\ last'.op = "notify"
          /\ HasNoColon(last'.data) /\ ~ParseInt(last'.data).ok)
         => /\ ~last'.parsed
            /\ last'.ret = None
            /\ users' = users
            /\ heap' = heap]_vars

C7_Witness ==
    /\ last.op = "notify"
    /\ last.data = <<"g", "a", "r", "b", "a", "g", "e">>
    /\ ~last.parsed
    /\ <<"u">> \in DOMAIN users
    /\ Entity(<<"u">>).beacon_data # EmptyMap

(***************************************************************************)
(* C8.  Parsing yields an (entity, RSSI) pair for the payloads of the form *)
(* "<entity_id>:<integer>" and for no other: a payload with no colon, with *)
(* an RSSI segment that is no integer, or with more than one colon fails.  *)
(* parse_beacon_data ignores what follows a second colon, so "u:-70:x" is  *)
(* accepted and this is violated.                                          *)
(***************************************************************************)
C8_OnlyWellFormedParses ==
    last.op = "notify" => (last.parsed <=> WellFormed(last.data))

(***************************************************************************)
(* C9.  Change gating.  Original: a call that resolves to the last         *)
(* reported position (within 0.1 m) emits no event, and a call that moves  *)
(* the resolved position by more than 0.1 m from the last reported         *)
(* position emits one.  The second half is violated: update_rssi solves    *)
(* only when the distance-level gate is open.                              *)
(* Amended: a call that resolves to the last reported position emits no    *)
(* event, and a call that records a new beacon or moves the beacon's       *)
(* distance by more than 0.5 m, and moves the resolved position by more    *)
(* than 0.1 m from the last reported position, emits one.                  *)
(***************************************************************************)
Resolved == calculate_position(After)

C9_SamePositionSilent ==
    (IngestStep /\ last'.mac \in Macs
       /\ Before.last_position # None /\ Resolved # None
       /\ ~MovedMoreThan(Resolved, Before.last_position, POSITION_THRESHOLD))
        => last'.ret = None

C10_FirstPositionReported ==
    [][(IngestStep /\ last'.mac \in Macs
          /\ Before.last_position = None
          /\ can_calculate_position(After) /\ Resolved # None)
         => last'.ret # None]_vars

\* What the code does guarantee: the first position is reported by a call
\* whose distance-level gate is open.
FirstPositionWhenGateOpen ==
    [][(IngestStep /\ last'.mac \in Macs
          /\ DistanceGateOpen
          /\ Before.last_position = None
          /\ can_calculate_position(After) /\ Resolved # None)
         => (last'.ret # None /\ After.last_position = Resolved)]_vars

(***************************************************************************)
(* C11.  Every position event update_rssi returns is significant: the      *)
(* entity had no reported position before the call, or the position of     *)
(* the event lies more than 0.1 m from the position reported last before   *)
(* the call.                                                               *)
(***************************************************************************)
EventPosition(ret) == <<ret[1].x, ret[1].y>>

C11_EventsAreSignificant ==
    [][(IngestStep /\ last'.ret # None)
         => \/ Before.last_position = None
            \/ MovedMoreThan(EventPosition(last'.ret), Before.last_position,
                             POSITION_THRESHOLD)]_vars

\* An event for an entity that had a reported position already; the new
\* position is the one now stored, the previous one is in the history.
C11_Witness ==
    /\ last.op = "notify"
    /\ last.ret # None
    /\ LET user == Entity(last.user_id)
           n == Len(user.position_history)
       IN  /\ n >= 2
           /\ user.last_position = EventPosition(last.ret)
           /\ MovedMoreThan(user.position_history[n], user.position_history[n - 1],
                            POSITION_THRESHOLD)

(***************************************************************************)
(* C12.  The force query bypasses the change gate and changes no engine    *)
(* state: it returns the position solved from the current distances        *)
(* whatever was reported last, and the store (last positions, histories,   *)
(* beacon data, filters) is the same after it as before it; the store a    *)
(* notification leaves is the one update_rssi alone leaves, so a later     *)
(* sample is gated as if the handler's force query had not happened.       *)
(***************************************************************************)
C12_ForceChangesNothing ==
    [][/\ (nsteps' = nsteps + 1 /\ last'.op = "force")
           => /\ heap' = heap
              /\ users' = users
              /\ LET position == calculate_position(EntityOf(users, heap, last'.user_id))
                 IN  IF position = None THEN last'.ret = None
                     ELSE last'.ret # None /\ EventPosition(last'.ret) = position
       /\ (nsteps' = nsteps + 1 /\ last'.op = "notify" /\ last'.parsed)
           => LET r == update_rssi(users, heap, last'.user_id, last'.mac, last'.rssi)
              IN  heap' = r.heap /\ users' = r.users]_vars

\* A force query returned the position that was reported last: the change
\* gate would have returned nothing.
C12_Witness ==
    /\ last.op = "force"
    /\ last.ret # None
    /\ Entity(last.user_id).last_position = EventPosition(last.ret)

\* The beacons of an entity that hold a valid (positive) distance, in the
\* order they were first observed, and the three closest of them.
ValidBeacons(user) ==
    SelectSeq(user.beacon_order, LAMBDA m : user.beacon_data[m].distance > 0)

ClosestValid(user) == SubSeq(SortByDistance(ValidBeacons(user), user.beacon_data), 1, 3)

Collinear(p1, p2, p3) ==
    (p2.x - p1.x) * (p3.y - p1.y) = (p3.x - p1.x) * (p2.y - p1.y)

\* The last call was a notification that delivered a sample, or a force
\* query; Produced is what the call returned (for a notification: what its
\* update_rssi and its force query returned).
PositionCall ==
    \/ last.op = "force"
    \/ last.op = "notify" /\ last.parsed

Produced == {last.ret, last.current} \ {None}

(***************************************************************************)
(* C13.  While fewer than 3 beacons of an entity hold a valid distance,    *)
(* update_rssi and force_calculate_position return None for it.            *)
(***************************************************************************)
C13_NoPositionBelowThreeValid ==
    (/\ PositionCall
     /\ Len(ValidBeacons(EntityOf(users, heap, last.user_id))) < MIN_BEACONS)
        => Produced = {}

\* Three beacons are recorded for the entity, fewer than three of them
\* with a valid distance, and the call returned None.
C13_Witness ==
    /\ PositionCall
    /\ last.user_id \in DOMAIN users
    /\ Len(Entity(last.user_id).beacon_order) >= MIN_BEACONS
    /\ Len(ValidBeacons(Entity(last.user_id))) = MIN_BEACONS - 1
    /\ Produced = {}

(***************************************************************************)
(* C14.  Whenever an entity has at least 3 beacons with valid distances    *)
(* and the three closest of those are not collinear, a position is         *)
(* computed for it (the force query returns one), even if other beacons    *)
(* of the entity hold an invalid distance.                                 *)
(***************************************************************************)
C14_InvalidBeaconsIgnored ==
    LET user == EntityOf(users, heap, last.user_id)
        closest == ClosestValid(user)
    IN  (/\ PositionCall
         /\ Len(ValidBeacons(user)) >= MIN_BEACONS
         /\ ~Collinear(user.beacon_data[closest[1]].position,
                       user.beacon_data[closest[2]].position,
                       user.beacon_data[closest[3]].position))
            => IF last.op = "force" THEN last.ret # None ELSE last.current # None

(***************************************************************************)
(* C15.  When more than 3 readings are available for an entity, the        *)
(* position is solved from the 3 readings with the smallest distances,     *)
(* whatever the order in which the beacons were first observed: no beacon  *)
(* left out of the solve is closer than a beacon used in it.               *)
(***************************************************************************)
C15_ThreeClosestUsed ==
    [][\A t \in Macs :
         (pc[t] = "solve" /\ pc'[t] = "log_position")
            => LET readings == user_data[loc[t].user_id].distance
                   used == user_positions'[loc[t].user_id].beacons_used
                   beacons_used == {used[i] : i \in 1..Len(used)}
               IN  \A m \in beacons_used, o \in DOMAIN readings \ beacons_used :
                       readings[m] <= readings[o]]_vars

\* The three beacons of the entity of SpecSolve, their positions and their
\* distances.
SolvePositions == [i \in 1..3 |-> Entity(<<"u">>).beacon_data[SolveMacs[i]].position]
SolveDistances == [i \in 1..3 |-> Entity(<<"u">>).beacon_data[SolveMacs[i]].distance]

Degenerate == Collinear(SolvePositions[1], SolvePositions[2], SolvePositions[3])

PositiveDistances == \A i \in 1..3 : SolveDistances[i] > 0

\* The position the last solver call produced, None for a failure: what
\* update_position stored, what the force query or trilaterate returned.
SolverResult ==
    CASE last.op = "update_position" -> Entity(<<"u">>).last_position
      [] last.op = "force" ->
            IF last.ret = None THEN None ELSE EventPosition(last.ret)
      [] last.op = "trilaterate" -> last.ret.position
      [] OTHER -> None

(***************************************************************************)
(* C16.  For three collinear beacons, or three beacons of which two are at *)
(* the same point, with any positive distances, the solvers report failure *)
(* (None): update_position returns no event and stores no position, the    *)
(* force query and basic.py's trilaterate return None.                     *)
(***************************************************************************)
C16_DegenerateGeometryFails ==
    (Degenerate /\ PositiveDistances /\ last.op # "init")
        => /\ SolverResult = None
           /\ last.op \in {"update_position", "force"} => last.ret = None
           /\ Entity(<<"u">>).last_position = None
           /\ Entity(<<"u">>).position_history = <<>>

\* The solver was called on the beacons (0,0), (1,0), (2,0) with positive
\* distances.
C16_Witness ==
    /\ SolvePositions = CollinearExample
    /\ PositiveDistances
    /\ last.op = "update_position"
    /\ SolverResult = None

\* The distances of the entity's beacons are the Euclidean distances from
\* P, and they are whole centimetres.
DistancesFrom(P) == SolveDistances = ExactDistances(P, SolvePositions)

WholeDistances(P) ==
    \A i \in 1..3 :
        SolveDistances[i] * SolveDistances[i] = SquaredDistance(P, SolvePositions[i])

Within(position, P, tolerance) ==
    /\ Abs(position[1] - P.x) <= tolerance
    /\ Abs(position[2] - P.y) <= tolerance

\* The solver returned P.  Distances that are not whole centimetres reach
\* the solver rounded, and the error of the solution then depends on the
\* geometry: for the beacons (0,0), (4,0), (0,3) it is within 1 cm.
RoundTrip(P) ==
    /\ SolverResult # None
    /\ WholeDistances(P) => SolverResult = <<P.x, P.y>>
    /\ SolvePositions = RoundTripExample => Within(SolverResult, P, 1)

(***************************************************************************)
(* C17 as stated.  Round trip: for any three non-collinear beacons and any *)
(* true point P, the solver fed with the Euclidean distances from P to the *)
(* beacons returns P.                                                      *)
(***************************************************************************)
C17_OriginalRoundTrip ==
    \A P \in TruePoints :
        (~Degenerate /\ DistancesFrom(P) /\ last.op # "init") => RoundTrip(P)

(***************************************************************************)
(* C17, amended.  Round trip: for any three non-collinear beacons and any  *)
(* true point P that is at none of the three beacons, the solver fed with  *)
(* the Euclidean distances from P to the beacons returns P: exactly when   *)
(* the distances are whole centimetres, within the resolution of 1 cm      *)
(* otherwise (beacons (0,0), (4,0), (0,3) and P = (1,1)).                  *)
(***************************************************************************)
C17_RoundTrip ==
    \A P \in TruePoints :
        (~Degenerate /\ DistancesFrom(P) /\ PositiveDistances /\ last.op # "init")
            => RoundTrip(P)

\* The beacons (0,0), (4,0), (0,3) with the distances from (1,1): the
\* force query returned a position.
C17_Witness ==
    /\ SolvePositions = RoundTripExample
    /\ DistancesFrom(Point(CmPerMetre, CmPerMetre))
    /\ last.op = "force"
    /\ SolverResult # None

\* The last call was one of the distance estimators.
EstimatorCall == last.op \in {"rssi_to_distance", "estimate_distance"}

(***************************************************************************)
(* C18.  The distance estimator rejects every RSSI that is 0 or positive   *)
(* as an invalid reading: _rssi_to_distance returns the invalid distance   *)
(* -1.0 and estimate_distance returns None, never a computed distance.     *)
(***************************************************************************)
C18_NonNegativeRssiRejected ==
    (EstimatorCall /\ last.rssi >= 0)
        => /\ last.op = "rssi_to_distance" => last.ret = <<INVALID_DISTANCE>>
           /\ last.op = "estimate_distance" => last.ret = None

(***************************************************************************)
(* C19.  For every negative RSSI the estimated distance is the path-loss   *)
(* formula clamped to [0.1, 100] metres: it lies in [0.1, 100], for an     *)
(* RSSI at or below tx_power it is the clamped formula, and in particular  *)
(* an RSSI equal to tx_power gives 1 m.                                    *)
(***************************************************************************)
C19_ClampedFormula ==
    (last.op = "rssi_to_distance" /\ last.rssi < 0)
        => /\ last.ret[1] >= MIN_DISTANCE
           /\ last.ret[1] <= MAX_DISTANCE
           /\ last.rssi <= TX_POWER * RssiScale
                => last.ret[1] = Max(MIN_DISTANCE,
                                     Min(PathLoss(TX_POWER * RssiScale - last.rssi),
                                         MAX_DISTANCE))
           /\ last.rssi = TX_POWER * RssiScale => last.ret[1] = CmPerMetre

(***************************************************************************)
(* C20.  The estimated distance is monotonically non-increasing in RSSI:   *)
(* for two calls of the same estimator with r1 < r2 that both return a     *)
(* distance, distance(r2) <= distance(r1).                                 *)
(***************************************************************************)
C20_Monotone ==
    [][(/\ EstimatorCall
        /\ last'.op = last.op
        /\ last.ret # None
        /\ last'.ret # None
        /\ last.rssi < last'.rssi)
          => last'.ret[1] <= last.ret[1]]_vars

\* A second call of _rssi_to_distance, below tx_power, returned a distance
\* strictly inside the clamp range.
C20_Witness ==
    /\ last.op = "rssi_to_distance"
    /\ nsteps = 2
    /\ last.rssi < TX_POWER * RssiScale
    /\ last.ret[1] > MIN_DISTANCE
    /\ last.ret[1] < MAX_DISTANCE

(***************************************************************************)
(* C21.  Filter state is isolated per (entity, beacon) pair: the first     *)
(* sample of a pair passes a filter that no sample of another entity or    *)
(* beacon has changed, so its filtered value is the one a fresh filter     *)
(* gives.  (basic.py: a pair has no entry in user_data before its first    *)
(* filtered sample is stored.)                                             *)
(***************************************************************************)
C21_FilterPerPair ==
    [][\A t \in Workers :
         (pc[t] = "idle" /\ pc'[t] = "acquire")
            => LET user_id == loc'[t].user_id
                   first == \/ user_id \notin DOMAIN user_data
                            \/ t \notin DOMAIN user_data[user_id].distance
                   fresh == Kalman2Update(Kalman2Predict(create_kalman_filter),
                                          estimate_distance(loc'[t].rssi)[1])
               IN  first => loc'[t].filtered = fresh.x0]_vars

\* The raw samples fed so far to the filter of (entity, beacon): the raw
\* history, which is complete while no more than RSSI_HISTORY_MAX samples
\* were fed at all.
SamplesFed(user_id, mac) ==
    LET view == BeaconView(EntityOf(users, heap, user_id), mac)
    IN  IF view.data = None THEN <<>> ELSE view.data[1].rssi_history

C23_ErrorsNonFatal ==
    [][(IngestStep /\ last'.mac \in Macs /\ last'.rssi < 0)
         => /\ last'.user_id \in DOMAIN users'
            /\ last'.mac \in DOMAIN After.beacon_data
            /\ LET entry == After.beacon_data[last'.mac]
               IN  /\ entry.rssi = last'.rssi
                   /\ entry.rssi_history[Len(entry.rssi_history)] = last'.rssi
                   /\ entry.filtered_rssi = After.kalman_filters[last'.mac].x
                   /\ entry.distance = rssi_to_distance(entry.filtered_rssi)
                   /\ entry.distance >= MIN_DISTANCE]_vars

\* An entity holds an invalid reading of one beacon, and the last call
\* recorded a valid sample of another beacon for it, yielding no position.
C23_Witness ==
    /\ last.op = "notify"
    /\ last.parsed
    /\ last.rssi < 0
    /\ last.ret = None
    /\ last.user_id \in DOMAIN users
    /\ LET user == Entity(last.user_id)
       IN  /\ last.mac \in DOMAIN user.beacon_data
           /\ user.beacon_data[last.mac].distance >= MIN_DISTANCE
           /\ user.beacon_order[Len(user.beacon_order)] = last.mac
           /\ \E m \in DOMAIN user.beacon_data :
                  user.beacon_data[m].distance = INVALID_DISTANCE

\* The records of a configuration whose coordinate string is two decimal
\* numbers separated by a comma.
WellFormedToado(toado) ==
    /\ Len(SplitOn(toado, ",")) = 2
    /\ ParseFloat(SplitOn(toado, ",")[1]).ok
    /\ ParseFloat(SplitOn(toado, ",")[2]).ok

GoodMacs(config) == {config[i].mac : i \in {j \in 1..Len(config) : WellFormedToado(config[j].toado)}}

(***************************************************************************)
(* C24.  Loading the beacon configuration never aborts because of one bad  *)
(* record: the load completes, the registry holds exactly the beacons      *)
(* whose coordinate string parses, and basic.py warns once per bad record. *)
(***************************************************************************)
C24_LoadSkipsBadRecords ==
    last.op = "load"
        => /\ last.ret.ok
           /\ DOMAIN last.ret.beacons = GoodMacs(last.data)
           /\ last.current.ok
           /\ DOMAIN last.current.beacons = GoodMacs(last.data)
           /\ last.current.warnings = Len(last.data) - Cardinality(GoodMacs(last.data))

\* What the status query reports as the last position of an entity of the
\* store (us, hp).
StatusPosition(us, hp, e) == get_user_status(us, hp, e)[1].last_position

Residual(position, i) ==
    Abs(Distance(Point(position[1], position[2]), SolvePositions[i]) - SolveDistances[i])

MeanResidual(position) ==
    RoundDiv(Residual(position, 1) + Residual(position, 2) + Residual(position, 3), 3)

(***************************************************************************)
(* C26.  The accuracy score attached to a solved position is within        *)
(* 0..100, equals max(0, 100 - 10 * mean absolute residual) over the 3     *)
(* beacons used, and is 100 when the measured distances are exactly the    *)
(* distances from the solved point to the beacons.  (Scores are in tenths  *)
(* of a point.)                                                            *)
(***************************************************************************)
C26_AccuracyScore ==
    (last.op = "trilaterate" /\ last.ret.position # None)
        => /\ last.ret.accuracy >= 0
           /\ last.ret.accuracy <= AccuracyFull
           /\ last.ret.accuracy
                = Max(0, AccuracyFull - MeanResidual(last.ret.position))
           /\ (\A i \in 1..3 : Residual(last.ret.position, i) = 0)
                => last.ret.accuracy = AccuracyFull

\* A solve whose mean residual is beyond 10 m: the score is 0.
C26_Witness ==
    /\ last.op = "trilaterate"
    /\ last.ret.position # None
    /\ MeanResidual(last.ret.position) > AccuracyFull
    /\ last.ret.accuracy = 0

\* A solve without residual: the score is 100.
C26_WitnessFull ==
    /\ last.op = "trilaterate"
    /\ last.ret.position # None
    /\ \A i \in 1..3 : Residual(last.ret.position, i) = 0
    /\ last.ret.accuracy = AccuracyFull

\* The n most recent values of a sequence, in arrival order.
LastN(values, n) ==
    IF Len(values) <= n THEN values ELSE SubSeq(values, Len(values) - n + 1, Len(values))

RawHistory(user, mac) ==
    IF mac \in DOMAIN user.beacon_data THEN user.beacon_data[mac].rssi_history ELSE <<>>

(***************************************************************************)
(* C27.  Histories are bounded after any sequence of samples: a position   *)
(* history never holds more than 10 entries and a raw-sample history never *)
(* more than 5, and each is the window of the most recent values in        *)
(* arrival order: a sample is appended to the raw history of its pair, an  *)
(* emitted position to the position history, and the oldest entry is       *)
(* discarded when the window is full.                                      *)
(***************************************************************************)
C27_HistoriesBounded ==
    [][(IngestStep /\ last'.mac \in Macs)
         => /\ Len(After.position_history) <= POSITION_HISTORY_MAX
            /\ \A m \in DOMAIN After.beacon_data :
                  Len(RawHistory(After, m)) <= RSSI_HISTORY_MAX
            /\ RawHistory(After, last'.mac)
                 = LastN(Append(RawHistory(Before, last'.mac), last'.rssi),
                         RSSI_HISTORY_MAX)
            /\ After.position_history
                 = IF last'.ret = None THEN Before.position_history
                   ELSE LastN(Append(Before.position_history, EventPosition(last'.ret)),
                              POSITION_HISTORY_MAX)]_vars

\* Both windows are full and have discarded their oldest entry: the
\* position history holds 10 positions, the newest the one just emitted,
\* and no longer the entity's first position.
C27_Witness ==
    /\ nsteps >= POSITION_HISTORY_MAX
    /\ last.ret # None
    /\ HistoryStore.ret # None
    /\ \A i \in 1..POSITION_HISTORY_MAX :
          Entity(<<"u">>).position_history[i] # EventPosition(HistoryStore.ret)
    /\ Len(Entity(<<"u">>).position_history) = POSITION_HISTORY_MAX
    /\ Entity(<<"u">>).position_history[POSITION_HISTORY_MAX] = EventPosition(last.ret)
    /\ Len(RawHistory(Entity(<<"u">>), "B1")) = RSSI_HISTORY_MAX
    /\ \E other \in {<<i, j>> \in (1..POSITION_HISTORY_MAX) \X (1..POSITION_HISTORY_MAX) : i < j} :
          Entity(<<"u">>).position_history[other[1]]
            # Entity(<<"u">>).position_history[other[2]]

\* The beacons recorded for an entity of the store (us, hp).
BeaconsOf(us, hp, e) == DOMAIN EntityOf(us, hp, e).beacon_data

(***************************************************************************)
(* C28.  An entity's beacon map only grows: a beacon recorded for an       *)
(* entity is still recorded for it after every later step, so the beacon   *)
(* count of the entity never decreases.                                    *)
(***************************************************************************)
C28_BeaconMapGrows ==
    [][\A e \in DOMAIN users :
         /\ e \in DOMAIN users'
         /\ BeaconsOf(users, heap, e) \subseteq BeaconsOf(users', heap', e)]_vars

(***************************************************************************)
(* C29.  Entities are never evicted: an identifier known to the store,     *)
(* the engine's users or basic.py's user_data, is still known after every  *)
(* later step, so the set of known entities never shrinks.                 *)
(***************************************************************************)
C29_EntitiesNeverEvicted ==
    [][/\ DOMAIN users \subseteq DOMAIN users'
       /\ DOMAIN user_data \subseteq DOMAIN user_data']_vars

\* Two entities are known, and calls were made after the second was created.
C29_Witness ==
    /\ Cardinality(DOMAIN users) = 2
    /\ nsteps = MaxRecoverSteps
    /\ last.op = "notify"
    /\ last.mac \notin DOMAIN beacons

\* Thread t waits for data_lock while holding it.
WaitsForOwnLock(t) ==
    /\ data_lock = <<t>>
    /\ pc[t] \in {"acquire", "export_acquire", "get_acquire"}

(***************************************************************************)
(* C30.  export_positions_json always returns: whatever user_data holds,   *)
(* the calling thread is never left waiting for the data_lock it holds     *)
(* itself, a wait no other thread ends.                                    *)
(***************************************************************************)
C30_ExportNeverWaitsForOwnLock == ~WaitsForOwnLock(Caller)

(***************************************************************************)
(* C31.  A connection worker the operator has not stopped keeps retrying:  *)
(* after a failed attempt or a dropped link it goes round its loop again,  *)
(* so its thread has not ended.                                            *)
(***************************************************************************)
C31_WorkerKeepsRetrying ==
    \A t \in ConnWorkers : t \notin Stopped => pc[t] # "done"

(***************************************************************************)
(* C32.  After the shutdown path has called disconnect() on a connection,  *)
(* its worker makes no further connection attempt: it does not pass the    *)
(* top of its loop into another attempt.                                   *)
(***************************************************************************)
C32_NoAttemptAfterDisconnect ==
    [][\A t \in ConnWorkers :
         (t \in Stopped /\ pc[t] = "loop") => pc'[t] # "connect"]_vars

\* No call of the engine is in progress.
Quiescent == \A t \in Macs : pc[t] = "idle"

\* last_position of a User is None with an empty history, and the last
\* entry of the history otherwise.
LastPositionIsNewest(user) ==
    IF user.position_history = <<>> THEN user.last_position = None
    ELSE user.last_position = user.position_history[Len(user.position_history)]

(***************************************************************************)
(* C33.  For every entity, whenever no call is in progress, last_position  *)
(* is None exactly when the position history is empty, and otherwise       *)
(* equals the most recent entry of the history.                            *)
(***************************************************************************)
C33_LastPositionIsNewest ==
    Quiescent => \A e \in DOMAIN users : LastPositionIsNewest(Entity(e))

\* The linear system of calculate_position for the inputs of a user:
\* circle 2 subtracted from circle 1, circle 3 from circle 2.  Cramer's rule
\* gives x = nx / denominator and y = ny / denominator.
CramerSystem(user) ==
    LET p == ClosestCoords(user)
        r == ClosestDistances(user)
        A == 2 * (p[2].x - p[1].x)
        B == 2 * (p[2].y - p[1].y)
        C == r[1] * r[1] - r[2] * r[2] - p[1].x * p[1].x + p[2].x * p[2].x
                 - p[1].y * p[1].y + p[2].y * p[2].y
        D == 2 * (p[3].x - p[2].x)
        E == 2 * (p[3].y - p[2].y)
        F == r[2] * r[2] - r[3] * r[3] - p[2].x * p[2].x + p[3].x * p[3].x
                 - p[2].y * p[2].y + p[3].y * p[3].y
    IN  [nx |-> C * E - F * B, ny |-> A * F - C * D, denominator |-> A * E - B * D]

\* position is the solution of the system at the resolution of 1 cm: less
\* than 1 cm from nx / denominator and from ny / denominator.
IsCramerSolution(position, system) ==
    /\ system.denominator # 0
    /\ Abs(position[1] * system.denominator - system.nx) < Abs(system.denominator)
    /\ Abs(position[2] * system.denominator - system.ny) < Abs(system.denominator)

\* What the three implementations return for the inputs of a user:
\* User.calculate_position, basic.py's and test_trilateration.py's
\* trilaterate; None for a failure.
ThreeResults(user) ==
    << calculate_position(user),
       trilaterate(ClosestCoords(user), ClosestDistances(user)).position,
       test_trilaterate(ClosestCoords(user), ClosestDistances(user)).position >>

\* The position the last call returned, and the implementation it was.
EquivCall == last.op \in {"force", "basic_trilaterate", "test_trilaterate"}

EquivResult ==
    IF last.op = "force"
    THEN IF last.ret = None THEN None ELSE EventPosition(last.ret)
    ELSE last.ret.position

EquivIndex ==
    CASE last.op = "force" -> 1
      [] last.op = "basic_trilaterate" -> 2
      [] OTHER -> 3

\* The last call returned what its implementation gives; the three
\* implementations all fail, or all return the Cramer solution, the same
\* pair whenever the quotients are whole centimetres.
Equivalent(user) ==
    LET results == ThreeResults(user)
        system == CramerSystem(user)
    IN  /\ EquivResult = results[EquivIndex]
        /\ \/ \A i \in 1..3 : results[i] = None
           \/ /\ \A i \in 1..3 :
                    results[i] # None /\ IsCramerSolution(results[i], system)
              /\ (Abs(system.nx) % Abs(system.denominator) = 0
                     /\ Abs(system.ny) % Abs(system.denominator) = 0)
                    => results[1] = results[2] /\ results[2] = results[3]

(***************************************************************************)
(* C34 as stated.  For the same three (coordinate, distance) inputs,       *)
(* basic.trilaterate, test_trilateration.trilaterate and                   *)
(* User.calculate_position all fail or all return the same (x, y), the     *)
(* Cramer's-rule solution of the system.                                   *)
(***************************************************************************)
C34_OriginalEquivalent == EquivCall => Equivalent(Entity(<<"u">>))

(***************************************************************************)
(* C34, amended.  For the same three (coordinate, distance) inputs with    *)
(* positive distances, the three implementations all fail or all return    *)
(* the same (x, y), the Cramer's-rule solution of the system; with a       *)
(* distance that is not positive User.calculate_position fails whatever    *)
(* the two trilaterate functions return.                                   *)
(***************************************************************************)
C34_Equivalent ==
    EquivCall =>
        IF PositiveDistances THEN Equivalent(Entity(<<"u">>))
        ELSE ThreeResults(Entity(<<"u">>))[1] = None

\* test_trilateration.py's trilaterate returned a position for the beacons
\* (0,0), (4,0), (0,3) and the distances from (1,1), and so do the others.
C34_Witness ==
    /\ last.op = "test_trilaterate"
    /\ SolvePositions = RoundTripExample
    /\ DistancesFrom(Point(CmPerMetre, CmPerMetre))
    /\ EquivResult # None
    /\ \A i \in 1..3 : ThreeResults(Entity(<<"u">>))[i] # None

\* The least and the greatest value of a non-empty sequence of samples.
Lowest(samples) ==
    CHOOSE v \in {samples[i] : i \in 1..Len(samples)} :
        \A i \in 1..Len(samples) : v <= samples[i]

Highest(samples) ==
    CHOOSE v \in {samples[i] : i \in 1..Len(samples)} :
        \A i \in 1..Len(samples) : v >= samples[i]

(***************************************************************************)
(* C35.  The filtered RSSI of an (entity, beacon) pair lies between the    *)
(* least and the greatest raw sample received so far for the pair; and if  *)
(* every raw sample of the pair is negative, the recorded distance is      *)
(* valid, within [0.1 m, 100 m], never the invalid marker -1.  (The raw    *)
(* history holds every sample while no more than RSSI_HISTORY_MAX were     *)
(* received.)                                                              *)
(***************************************************************************)
C35_FilteredWithinSamples ==
    nsteps <= RSSI_HISTORY_MAX =>
        \A e \in DOMAIN users : \A mac \in DOMAIN Entity(e).beacon_data :
            LET entry == Entity(e).beacon_data[mac]
                samples == SamplesFed(e, mac)
            IN  /\ samples # <<>>
                /\ entry.filtered_rssi = Entity(e).kalman_filters[mac].x
                /\ entry.filtered_rssi >= Lowest(samples) * RssiScale
                /\ entry.filtered_rssi <= Highest(samples) * RssiScale
                /\ (\A i \in 1..Len(samples) : samples[i] < 0)
                       => /\ entry.distance # INVALID_DISTANCE
                          /\ entry.distance >= MIN_DISTANCE
                          /\ entry.distance <= MAX_DISTANCE

\* The pair was fed a weak and a strong sample, both negative: the filtered
\* value is strictly between them and the distance is valid.
C35_Witness ==
    /\ SamplesFed(<<"u">>, "B1") = <<-98, -40>>
    /\ Entity(<<"u">>).beacon_data["B1"].filtered_rssi > -98 * RssiScale
    /\ Entity(<<"u">>).beacon_data["B1"].filtered_rssi < -40 * RssiScale
    /\ Entity(<<"u">>).beacon_data["B1"].distance > MIN_DISTANCE

\* This step is taken by the handler of basic.py for a beacon that has no
\* entry in beacon_coords.
UnlistedStep ==
    \E t \in (DOMAIN pc) \ (DOMAIN beacon_coords) : pc'[t] # pc[t]

\* The entities known before the step keep everything recorded for them,
\* and an entity the step creates is empty.
EngineEntitiesKept ==
    /\ \A e \in DOMAIN users : e \in DOMAIN users' /\ Entity(e)' = Entity(e)
    /\ \A e \in (DOMAIN users') \ (DOMAIN users) : Entity(e)' = NewUser(e)

BasicEntitiesKept ==
    /\ \A e \in DOMAIN user_data : e \in DOMAIN user_data' /\ user_data'[e] = user_data[e]
    /\ \A e \in (DOMAIN user_data') \ (DOMAIN user_data) :
           user_data'[e].distance = EmptyMap

(***************************************************************************)
(* C36.  A sample reported by a beacon that is not in the registry yields  *)
(* no event and changes no entity's beacon data, filters, last position or *)
(* position history; at most it creates an empty record for an entity not  *)
(* seen before.  Stated for the engine (the registry is self.beacons) and  *)
(* for basic.py (the registry is beacon_coords).                           *)
(***************************************************************************)
C36_UnknownBeaconChangesNothing ==
    [][/\ (IngestStep /\ last'.mac \notin DOMAIN beacons)
            => /\ last'.ret = None
               /\ EngineEntitiesKept
       /\ UnlistedStep
            => /\ kalman_filters' = kalman_filters
               /\ user_positions' = user_positions
               /\ BasicEntitiesKept]_vars

(***************************************************************************)
(* Vocabulary of the claim on save_fingerprint.  A step is a save request  *)
(* when the main thread printed and the response is that of                *)
(* save_fingerprint; the clock the request read is the one before the      *)
(* step.                                                                   *)
(***************************************************************************)
ThirtySeconds == 30

SaveRequestServed ==
    /\ stdout'.lines # stdout.lines
    /\ stdout'.by = MainThread
    /\ response'.op = "save_fingerprint"

\* the reading was taken from current_rssi and was heard at most thirty
\* seconds before now
IsFreshReading(reading, cr, now) ==
    /\ reading.mac \in DOMAIN cr
    /\ reading.rssi = cr[reading.mac].rssi
    /\ now - cr[reading.mac].timestamp <= ThirtySeconds

HasOnlyFreshReadings(fingerprint, cr, now) ==
    /\ DOMAIN fingerprint.readings # {}
    /\ \A name \in DOMAIN fingerprint.readings :
          IsFreshReading(fingerprint.readings[name], cr, now)

\* C37: a save request that lengthens the fingerprint list appends one
\* fingerprint that holds at least one reading and only readings at most
\* 30 seconds old when the request ran; a save request answered "no RSSI
\* data" or "no recent data" leaves the list and the file as they were.
C37_FingerprintsHoldFreshReadings ==
    [][SaveRequestServed =>
          /\ fingerprints' # fingerprints =>
                /\ Len(fingerprints') = Len(fingerprints) + 1
                /\ SubSeq(fingerprints', 1, Len(fingerprints)) = fingerprints
                /\ HasOnlyFreshReadings(fingerprints'[Len(fingerprints')],
                                        current_rssi, time_time)
          /\ response'.error \in {"no_rssi", "no_recent"} =>
                /\ response'.status = 400
                /\ fingerprints' = fingerprints
                /\ fingerprints_file' = fingerprints_file]_vars

\* A fingerprint was saved with the reading of one beacon while the reading
\* of another, then older than thirty seconds, stayed out of it.
C37_Witness ==
    /\ response.op = "save_fingerprint"
    /\ response.status = 200
    /\ stdout.by = MainThread
    /\ fingerprints # <<>>
    /\ fingerprints_file = <<fingerprints>>
    /\ LET fingerprint == fingerprints[Len(fingerprints)]
           now == (nsteps - 1) * SecondsPerStep
       IN  /\ DOMAIN fingerprint.readings # {}
           /\ \E mac \in DOMAIN current_rssi :
                 /\ now - current_rssi[mac].timestamp > ThirtySeconds
                 /\ get_beacon_name(mac) \notin DOMAIN fingerprint.readings

=============================================================================
